---- MODULE Spec2Model ----
(***************************************************************************)
(* Nebula database client: the frame-driven caller (NebulaApp::update),    *)
(* its six one-shot completion slots (the pending fields), the background   *)
(* tasks it spawns on the tokio runtime, the tokio Mutex around the session *)
(* connection, and the connection factory (db::create_connection).         *)
(*                                                                         *)
(* One model action is one frame of NebulaApp::update (poll_async_tasks    *)
(* followed by the handler of at most one widget event), or one step of a  *)
(* background task.                                                        *)
(***************************************************************************)
EXTENDS Naturals, Integers, Sequences, FiniteSets, TLC

(***************************************************************************)
(* Bounds of the model.                                                    *)
(***************************************************************************)
\* Tasks and one-shot channels alive at the same time (identities 1..MaxLive).
MaxLive == 5
\* Entries of the in-memory connections list (connect() pushes one per call).
MaxConns == 3

\* Widget events (clicks and edits) the user makes in a session.
MaxClicks == 3

\* The most tasks one block of poll_async_tasks spawns (load_tables_and_views:
\* main.rs:258 and main.rs:269); widget handlers leave that many identities free.
BlockSpawns == 2

(***************************************************************************)
(* Option and Result values.                                               *)
(***************************************************************************)
None == <<>>
Some(x) == <<x>>
IsSome(o) == o # <<>>
Unwrap(o) == o[1]

\* Result<T, String>: Ok(v) carries the payload, Err(e) the error text.
Ok(v) == [ok |-> TRUE, v |-> <<v>>, e |-> ""]
Err(e) == [ok |-> FALSE, v |-> <<>>, e |-> e]
Val(r) == r.v[1]

\* HashMap::insert: the entry of key k is replaced by v, the others are kept.
Insert(m, k, v) == [x \in (DOMAIN m) \cup {k} |-> IF x = k THEN v ELSE m[x]]
\* HashMap::remove / dropping an identity from a map.
Remove(m, k) == [x \in (DOMAIN m) \ {k} |-> m[x]]
EmptyMap == [x \in {} |-> None]

\* Vec::remove(idx), 1-based.
VecRemove(v, idx) == [i \in 1..(Len(v) - 1) |-> IF i < idx THEN v[i] ELSE v[i + 1]]
\* databases.into_iter().filter(|db| db.name == name).collect()
RECURSIVE FilterByName(_, _)
FilterByName(v, name) ==
    IF v = <<>> THEN <<>>
    ELSE IF Head(v).name = name THEN <<Head(v)>> \o FilterByName(Tail(v), name)
         ELSE FilterByName(Tail(v), name)

(***************************************************************************)
(* models::connection                                                      *)
(***************************************************************************)
DatabaseType == {"MySQL", "PostgreSQL", "SQLite", "MongoDB"}

\* ConnectionConfig, reduced to the fields that decide behaviour.
Config(name, db_type, database) ==
    [name |-> name, db_type |-> db_type, database |-> database]

DefaultConfig == Config("New Connection", "MySQL", "")

(***************************************************************************)
(* The backend server, as the driver sees it.                              *)
(***************************************************************************)
DbNames == {"a", "b"}
DatabaseInfo(name) == [name |-> name]
\* What SHOW DATABASES can answer (databases come and go between two calls).
DbListings ==
    { <<DatabaseInfo("a"), DatabaseInfo("b")>>, <<DatabaseInfo("a")>>, <<DatabaseInfo("b")>> }

TableInfo(name, database) == [name |-> name, database |-> database]
ViewInfo(name, database) == [name |-> name, database |-> database]

\* What information_schema.TABLES can answer for a database (the schema may
\* change between two calls).
TableListings(db) ==
    { <<TableInfo("t1", db)>>, <<TableInfo("t1", db), TableInfo("t2", db)>> }
ViewListings(db) ==
    { <<>>, <<ViewInfo("v1", db)>> }

\* The transport's error text.
TransportError == "io"

(***************************************************************************)
(* models::query and the statements the query editor holds.                *)
(***************************************************************************)
\* A statement text: leading whitespace, first keyword as typed, the rest.
Sql(ws, head, tail) == [ws |-> ws, head |-> head, tail |-> tail]
EmptySql == Sql("", "", "")
\* The backquote (U+0060). A string here cannot hold it and holds the
\* circumflex accent (U+005E) in its place; a text of the program with a
\* circumflex of its own has no text here.
Backquote == "^"
\* format!("SELECT * FROM BQ{}BQ.BQ{}BQ LIMIT 100", db, table), BQ the backquote.
SelectAll(db, table) ==
    Sql("", "SELECT", " * FROM " \o Backquote \o db \o Backquote \o "." \o Backquote
                      \o table \o Backquote \o " LIMIT 100")

\* The text itself.
Text(sql) == sql.ws \o sql.head \o sql.tail

\* The characters of a string from position i on.
From(w, i) == SubSeq(w, i, Len(w))
\* The characters of a string, as a set.
CharsOf(w) == { SubSeq(w, i, i) : i \in 1..Len(w) }
\* The characters str::trim removes (char::is_whitespace, the Unicode
\* White_Space property) up to U+00FF: tab, line feed, vertical tab, form
\* feed, carriage return, space, next line (U+0085) and no-break space
\* (U+00A0). The spaces beyond U+00FF (U+1680, U+2000..U+200A, U+2028,
\* U+2029, U+202F, U+205F, U+3000) are trimmed by the code as well; a string
\* here holds no character beyond U+00FF.
Whitespace == {"\t", "\n", "", "\f", "\r", " ", "", " "}
LowerCase == "abcdefghijklmnopqrstuvwxyz"
UpperCase == "ABCDEFGHIJKLMNOPQRSTUVWXYZ"
\* The lower-case letters of U+00E0..U+00FE (all but the division sign) and
\* their upper-case forms, U+00C0..U+00DE.
Latin1Lower == "àáâãäåæçèéêëìíîïðñòóôõöøùúûüýþ"
Latin1Upper == "ÀÁÂÃÄÅÆÇÈÉÊËÌÍÎÏÐÑÒÓÔÕÖØÙÚÛÜÝÞ"
\* char::to_uppercase on the characters up to U+00FF: a letter of the two
\* tables becomes its upper-case form, the sharp s becomes SS, every other
\* character stays. The micro sign (U+00B5) and y with diaeresis (U+00FF)
\* become U+039C and U+0178, which no string here holds: the operator has no
\* value on them. (Beyond U+00FF the code maps U+017F to S, U+0131 to I and
\* further letters to texts that begin with an ASCII letter.)
UpperChar(c) ==
    LET lower == LowerCase \o Latin1Lower
        upper == UpperCase \o Latin1Upper
    IN  CASE c \in CharsOf(lower) ->
                 LET i == CHOOSE i \in 1..Len(lower) : SubSeq(lower, i, i) = c
                 IN  SubSeq(upper, i, i)
          [] c = "ß" -> "SS"
          [] c \notin CharsOf(lower) \cup {"ß", "µ", "ÿ"} -> c

\* str::trim: the text without its leading and trailing whitespace.
RECURSIVE trim_start(_)
trim_start(w) ==
    IF w # "" /\ SubSeq(w, 1, 1) \in Whitespace THEN trim_start(From(w, 2)) ELSE w
RECURSIVE trim_end(_)
trim_end(w) ==
    IF w # "" /\ SubSeq(w, Len(w), Len(w)) \in Whitespace
    THEN trim_end(SubSeq(w, 1, Len(w) - 1)) ELSE w
trim(w) == trim_end(trim_start(w))

\* str::to_uppercase
RECURSIVE to_uppercase(_)
to_uppercase(w) ==
    IF w = "" THEN "" ELSE UpperChar(SubSeq(w, 1, 1)) \o to_uppercase(From(w, 2))

\* str::starts_with
starts_with(w, prefix) == Len(w) >= Len(prefix) /\ SubSeq(w, 1, Len(prefix)) = prefix

\* str::contains
contains(w, pat) ==
    \E i \in 1..(Len(w) - Len(pat) + 1) : SubSeq(w, i, i + Len(pat) - 1) = pat

\* A routing that would know SELECT only. The program's routing must differ
\* from it (C37).
is_select_only(sql) == starts_with(to_uppercase(trim(Text(sql))), "SELECT")

\* main.rs:325-328
is_select(sql) ==
    \/ starts_with(to_uppercase(trim(Text(sql))), "SELECT")
    \/ starts_with(to_uppercase(trim(Text(sql))), "SHOW")
    \/ starts_with(to_uppercase(trim(Text(sql))), "DESCRIBE")
    \/ starts_with(to_uppercase(trim(Text(sql))), "EXPLAIN")

QueryResult(columns, rows, affected_rows, execution_time_ms) ==
    [columns |-> columns, rows |-> rows, affected_rows |-> affected_rows,
     execution_time_ms |-> execution_time_ms]

\* Elapsed milliseconds a query can measure.
ExecTimes == {0, 2}
\* Row counts a statement can affect.
AffectedCounts == {0, 1}

(***************************************************************************)
(* db::DatabaseError and its Display text (thiserror).                     *)
(***************************************************************************)
ConnectionFailed(m) == "Connection failed: " \o m
QueryFailed(m) == "Query failed: " \o m
UnsupportedType(m) == "Unsupported database type: " \o m

(***************************************************************************)
(* models::query: the cells of a result.                                   *)
(***************************************************************************)
\* CellValue: the variant's tag and its payload (Null carries none).
CellValue(tag, v) == [tag |-> tag, v |-> v]
Null == CellValue("Null", 0)
ColumnInfo(name, data_type, nullable, is_primary_key) ==
    [name |-> name, data_type |-> data_type, nullable |-> nullable,
     is_primary_key |-> is_primary_key]

(***************************************************************************)
(* db::mysql, row by row: what the server sends and what the driver makes  *)
(* of it.                                                                  *)
(***************************************************************************)
\* The type names of the arms of row_to_values, arm by arm.
BoolArm == {"BOOLEAN", "BOOL"}
SignedArm == {"TINYINT", "SMALLINT", "INT", "MEDIUMINT", "BIGINT"}
UnsignedArm ==
    {"TINYINT UNSIGNED", "SMALLINT UNSIGNED", "INT UNSIGNED", "MEDIUMINT UNSIGNED",
     "BIGINT UNSIGNED"}
FloatArm == {"FLOAT", "DOUBLE", "DECIMAL"}
DateTimeArm == {"DATE", "TIME", "DATETIME", "TIMESTAMP"}
JsonArm == {"JSON"}
BytesArm == {"BLOB", "BINARY", "VARBINARY", "TINYBLOB", "MEDIUMBLOB", "LONGBLOB"}
\* Type names the server reports that no arm lists.
OtherNames == {"VARCHAR", "CHAR", "TEXT", "ENUM", "YEAR", "BIT"}
TypeNames ==
    BoolArm \cup SignedArm \cup UnsignedArm \cup FloatArm \cup DateTimeArm
        \cup JsonArm \cup BytesArm \cup OtherNames

\* The Rust type the arm of a type name asks try_get for.
ReadAs(type_name) ==
    CASE type_name \in BoolArm -> "bool"
      [] type_name \in SignedArm -> "i64"
      [] type_name \in UnsignedArm -> "i64"
      [] type_name \in FloatArm -> "f64"
      [] type_name \in DateTimeArm -> "String"
      [] type_name \in JsonArm -> "String"
      [] type_name \in BytesArm -> "Vec<u8>"
      [] OTHER -> "String"

\* A mapping that would send the unsigned integer types to the fallback arm.
\* The driver's mapping must differ from it (C14).
VariantOfSignedOnly(type_name) ==
    CASE type_name \in BoolArm -> "Bool"
      [] type_name \in SignedArm -> "Int"
      [] type_name \in FloatArm -> "Float"
      [] type_name \in DateTimeArm -> "DateTime"
      [] type_name \in JsonArm -> "Json"
      [] type_name \in BytesArm -> "Bytes"
      [] OTHER -> "String"

\* The CellValue variant the arm of a type name builds.
VariantOf(type_name) ==
    CASE type_name \in BoolArm -> "Bool"
      [] type_name \in SignedArm -> "Int"
      [] type_name \in UnsignedArm -> "Int"
      [] type_name \in FloatArm -> "Float"
      [] type_name \in DateTimeArm -> "DateTime"
      [] type_name \in JsonArm -> "Json"
      [] type_name \in BytesArm -> "Bytes"
      [] OTHER -> "String"

\* A value on the wire: its payload and the Rust types try_get can read it as
\* (none for SQL NULL or a value the type cannot hold).
Raw(v, reads) == [v |-> v, reads |-> reads]
\* Row::try_get::<T, _>(i).ok()
try_get(raw, T) == IF T \in raw.reads THEN Some(raw.v) ELSE None

\* MySqlColumn and MySqlRow: a row carries the columns of its result set and
\* one value for each.
Column(name, type_name) == [name |-> name, type_name |-> type_name]
MySqlRow(columns, values) == [columns |-> columns, values |-> values]
\* Row::len
RowLen(row) == Len(row.columns)

\* A conversion that would leave out the cells it cannot read. The driver's
\* conversion must differ from it (C13).
RECURSIVE row_to_values_skipping(_)
row_to_values_skipping(row) ==
    IF row.columns = <<>> THEN <<>>
    ELSE LET got == try_get(Head(row.values), ReadAs(Head(row.columns).type_name))
             rest == row_to_values_skipping(MySqlRow(Tail(row.columns), Tail(row.values)))
         IN  IF IsSome(got)
             THEN <<CellValue(VariantOf(Head(row.columns).type_name), Unwrap(got))>> \o rest
             ELSE rest

\* MySqlConnection::row_to_values
row_to_values(row) ==
    [i \in 1..RowLen(row) |->
        LET col == row.columns[i]
            got == try_get(row.values[i], ReadAs(col.type_name))
        IN  IF IsSome(got) THEN CellValue(VariantOf(col.type_name), Unwrap(got))
            ELSE Null]

\* An execute_query that would fail when a cell of the answer cannot be
\* read. The driver's call must differ from it (C15).
mysql_execute_query_strict(fetched, elapsed) ==
    IF ~fetched.ok THEN Err(QueryFailed(fetched.e))
    ELSE LET rows == Val(fetched) IN
         IF rows = <<>> THEN Ok(QueryResult(<<>>, <<>>, None, elapsed))
         ELSE IF \E k \in 1..Len(rows) : Null \in { row_to_values(rows[k])[i]
                                                     : i \in 1..RowLen(rows[k]) }
         THEN Err(QueryFailed("mismatched types"))
         ELSE Ok(QueryResult(
                  [i \in 1..Len(rows[1].columns) |->
                      ColumnInfo(rows[1].columns[i].name, rows[1].columns[i].type_name,
                                 TRUE, FALSE)],
                  [k \in 1..Len(rows) |-> row_to_values(rows[k])],
                  None, elapsed))

\* MySqlConnection::execute_query, from the answer of fetch_all on: fetched is
\* Ok(rows) or Err(text), elapsed the milliseconds measured.
mysql_execute_query(fetched, elapsed) ==
    IF ~fetched.ok THEN Err(QueryFailed(fetched.e))
    ELSE LET rows == Val(fetched) IN
         IF rows = <<>> THEN Ok(QueryResult(<<>>, <<>>, None, elapsed))
         ELSE Ok(QueryResult(
                  [i \in 1..Len(rows[1].columns) |->
                      ColumnInfo(rows[1].columns[i].name, rows[1].columns[i].type_name,
                                 TRUE, FALSE)],
                  [k \in 1..Len(rows) |-> row_to_values(rows[k])],
                  None, elapsed))

(***************************************************************************)
(* The server's catalog and its answers to the driver's statements.        *)
(***************************************************************************)
\* Rows a seeded table holds.
MaxRows == 3
\* The largest LIMIT and OFFSET a caller passes.
MaxLimit == 4

Schemas == {"d", "e"}
\* A table name that holds a backquote.
BackquotedName == "t" \o Backquote \o " -- x"
\* The object names, in the order the server lists them.
NameOrder == <<"t", BackquotedName, "u", "v">>
Key(schema, name) == <<schema, name>>

\* A column of the catalog: its name, COLUMN_TYPE, the type name the wire
\* protocol reports, IS_NULLABLE, COLUMN_KEY and EXTRA.
ColumnMeta(name, column_type, type_name, is_nullable, column_key, extra) ==
    [name |-> name, column_type |-> column_type, type_name |-> type_name,
     is_nullable |-> is_nullable, column_key |-> column_key, extra |-> extra]
\* A table or view: TABLE_TYPE, its columns by ordinal position, its rows.
Object(type, columns, rows) == [type |-> type, columns |-> columns, rows |-> rows]

\* The row of a table whose key column holds id: one wire value per column.
\* The second column holds a value i64 cannot read when the key is even.
SeedRow(id) == <<Raw(id, {"i64"}), Raw(id, IF id % 2 = 0 THEN {} ELSE {"i64"})>>
IdColumn == ColumnMeta("id", "int", "INT", "NO", "PRI", "auto_increment")
QtyColumn == ColumnMeta("qty", "int unsigned", "INT UNSIGNED", "YES", "", "")
NoteColumn == ColumnMeta("note", "varchar(20)", "VARCHAR", "YES", "", "DEFAULT_GENERATED")
\* A key column that SELECT * does not show.
HiddenIdColumn == ColumnMeta("id", "int", "INT", "NO", "PRI", "auto_increment INVISIBLE")

\* Seeded rows: keys 1, 2, 2, ... (a key may repeat).
SeedRows(n) == [i \in 1..n |-> SeedRow(IF i = 1 THEN 1 ELSE 2)]

\* The positions of the columns SELECT * shows: all but the INVISIBLE ones.
Shown(columns) ==
    LET Visible(i) == ~contains(columns[i].extra, "INVISIBLE")
    IN  SelectSeq([i \in 1..Len(columns) |-> i], Visible)
\* The columns and the values of a row at the positions at.
ShownRow(columns, values, at) ==
    MySqlRow([j \in 1..Len(at) |-> Column(columns[at[j]].name, columns[at[j]].type_name)],
             [j \in 1..Len(at) |-> values[at[j]]])
\* SELECT * of a table of the catalog: each row with the columns the table
\* shows, in the order the rows are stored in (that of the table's key).
RowsOf(obj) ==
    [k \in 1..Len(obj.rows) |-> ShownRow(obj.columns, obj.rows[k], Shown(obj.columns))]

\* LIMIT limit OFFSET offset, as the server applies it: skip, then take.
RECURSIVE Skip(_, _)
Skip(rows, offset) ==
    IF offset = 0 \/ rows = <<>> THEN rows ELSE Skip(Tail(rows), offset - 1)
RECURSIVE Take(_, _)
Take(rows, limit) ==
    IF limit = 0 \/ rows = <<>> THEN <<>>
    ELSE <<Head(rows)>> \o Take(Tail(rows), limit - 1)

(***************************************************************************)
(* The statement texts the driver builds (format!) and the server's        *)
(* reading of a statement text.                                            *)
(***************************************************************************)
Digits == "0123456789"
\* Display of a u32: its decimal digits.
RECURSIVE Decimal(_)
Decimal(n) ==
    IF n < 10 THEN SubSeq(Digits, n + 1, n + 1)
    ELSE Decimal(n \div 10) \o SubSeq(Digits, (n % 10) + 1, (n % 10) + 1)
\* The number a run of decimal digits writes.
RECURSIVE Number(_)
Number(w) ==
    IF w = "" THEN 0
    ELSE 10 * Number(SubSeq(w, 1, Len(w) - 1))
         + (CHOOSE d \in 0..9 : SubSeq(Digits, d + 1, d + 1) = SubSeq(w, Len(w), Len(w)))

\* mysql.rs:104-109: the name is put between the quotes as it is.
list_tables_query(database) ==
    "SELECT TABLE_NAME, ENGINE, TABLE_ROWS, DATA_LENGTH \n"
    \o "             FROM information_schema.TABLES \n"
    \o "             WHERE TABLE_SCHEMA = '" \o database \o "' AND TABLE_TYPE = 'BASE TABLE'"
\* mysql.rs:136-141
list_views_query(database) ==
    "SELECT TABLE_NAME, VIEW_DEFINITION \n"
    \o "             FROM information_schema.VIEWS \n"
    \o "             WHERE TABLE_SCHEMA = '" \o database \o "'"
\* A statement of describe_table that would ask for no order. The driver's
\* statement must differ from it (C17).
describe_table_query_unordered(database, table) ==
    "SELECT COLUMN_NAME, COLUMN_TYPE, IS_NULLABLE, COLUMN_DEFAULT, \n"
    \o "                    COLUMN_KEY, EXTRA, COLUMN_COMMENT\n"
    \o "             FROM information_schema.COLUMNS \n"
    \o "             WHERE TABLE_SCHEMA = '" \o database
    \o "' AND TABLE_NAME = '" \o table \o "'"
\* mysql.rs:164-171
describe_table_query(database, table) ==
    "SELECT COLUMN_NAME, COLUMN_TYPE, IS_NULLABLE, COLUMN_DEFAULT, \n"
    \o "                    COLUMN_KEY, EXTRA, COLUMN_COMMENT\n"
    \o "             FROM information_schema.COLUMNS \n"
    \o "             WHERE TABLE_SCHEMA = '" \o database
    \o "' AND TABLE_NAME = '" \o table \o "'\n"
    \o "             ORDER BY ORDINAL_POSITION"
\* mysql.rs:267-270: the names between backquotes as they are, limit and
\* offset in decimal.
get_table_data_sql(database, table, limit, offset) ==
    "SELECT * FROM " \o Backquote \o database \o Backquote \o "." \o Backquote \o table
    \o Backquote \o " LIMIT " \o Decimal(limit) \o " OFFSET " \o Decimal(offset)

\* The server reads a statement as words, quoted texts and signs. The texts
\* read here are those written with the characters of SqlAlphabet.
SqlSpace == {" ", "\t", "\n", "\r"}
WordChars == CharsOf(LowerCase \o UpperCase \o Digits \o "_")
SqlAlphabet == WordChars \cup SqlSpace \cup {"'", Backquote, "=", ".", ",", "*", "(", ")", "-"}
Reserved == {"SELECT", "FROM", "WHERE", "AND", "OR", "ORDER", "BY", "LIMIT", "OFFSET"}

\* A token: "str" a text between single quotes, "id" a name between
\* backquotes, "word", "sym", and "open" for a quote that is never closed.
Token(k, v) == [k |-> k, v |-> v]
\* The text up to the quote that closes it (a doubled quote stands for one
\* quote of the text) and what follows that quote.
RECURSIVE Quoted(_, _)
Quoted(w, q) ==
    IF w = "" THEN [closed |-> FALSE, v |-> "", rest |-> ""]
    ELSE IF SubSeq(w, 1, 1) # q
         THEN [Quoted(From(w, 2), q) EXCEPT !.v = SubSeq(w, 1, 1) \o @]
         ELSE IF starts_with(w, q \o q)
              THEN [Quoted(From(w, 3), q) EXCEPT !.v = q \o @]
              ELSE [closed |-> TRUE, v |-> "", rest |-> From(w, 2)]
\* The length of the word, and of the whitespace, the text begins with.
RECURSIVE WordLen(_)
WordLen(w) ==
    IF w # "" /\ SubSeq(w, 1, 1) \in WordChars THEN 1 + WordLen(From(w, 2)) ELSE 0
RECURSIVE SpaceLen(_)
SpaceLen(w) ==
    IF w # "" /\ SubSeq(w, 1, 1) \in SqlSpace THEN 1 + SpaceLen(From(w, 2)) ELSE 0
\* The text after the end of its first line.
RECURSIVE AfterLine(_)
AfterLine(w) ==
    IF w = "" THEN ""
    ELSE IF SubSeq(w, 1, 1) = "\n" THEN From(w, 2) ELSE AfterLine(From(w, 2))
\* The text without the whitespace and the comments it begins with. Two
\* dashes and a space begin a comment that runs to the end of the line.
RECURSIVE Skipped(_)
Skipped(w) ==
    IF w # "" /\ SubSeq(w, 1, 1) \in SqlSpace THEN Skipped(From(w, SpaceLen(w) + 1))
    ELSE IF starts_with(w, "--") /\ (Len(w) = 2 \/ SubSeq(w, 3, 3) \in SqlSpace)
    THEN Skipped(AfterLine(w))
    ELSE w

\* The first token of a text that begins with neither whitespace nor a
\* comment, and the text after it.
QuotedToken(kind, r) ==
    IF r.closed THEN [t |-> Token(kind, r.v), rest |-> r.rest]
    ELSE [t |-> Token("open", ""), rest |-> ""]
WordToken(w, n) == [t |-> Token("word", SubSeq(w, 1, n)), rest |-> From(w, n + 1)]
FirstToken(w) ==
    IF SubSeq(w, 1, 1) = "'" THEN QuotedToken("str", Quoted(From(w, 2), "'"))
    ELSE IF SubSeq(w, 1, 1) = Backquote THEN QuotedToken("id", Quoted(From(w, 2), Backquote))
    ELSE IF SubSeq(w, 1, 1) \in WordChars THEN WordToken(w, WordLen(w))
    ELSE [t |-> Token("sym", SubSeq(w, 1, 1)), rest |-> From(w, 2)]
\* At most n tokens of a text, and the text after them.
RECURSIVE LexSome(_, _)
Prepend(first, more) == [ts |-> <<first>> \o more.ts, rest |-> more.rest]
LexNext(first, n) == Prepend(first.t, LexSome(first.rest, n - 1))
LexSkipped(w, n) ==
    IF n = 0 \/ w = "" THEN [ts |-> <<>>, rest |-> w] ELSE LexNext(FirstToken(w), n)
LexSome(w, n) == LexSkipped(Skipped(w), n)
\* The tokens of a statement text, read eight at a time.
RECURSIVE Lex(_)
LexMore(some) == IF some.rest = "" THEN some.ts ELSE some.ts \o Lex(some.rest)
Lex(w) == LexMore(LexSome(w, 8))

\* Token i is the keyword kw (in any case), the sign c, a number, a name.
IsWord(ts, i, kw) == i <= Len(ts) /\ ts[i].k = "word" /\ to_uppercase(ts[i].v) = kw
IsSym(ts, i, c) == i <= Len(ts) /\ ts[i] = Token("sym", c)
IsNum(ts, i) == i <= Len(ts) /\ ts[i].k = "word" /\ CharsOf(ts[i].v) \subseteq CharsOf(Digits)
IsName(ts, i) ==
    /\ i <= Len(ts)
    /\ \/ ts[i].k = "id"
       \/ ts[i].k = "word" /\ to_uppercase(ts[i].v) \notin Reserved /\ ~IsNum(ts, i)

\* What a failed reading returns, and what a reading of a condition returns:
\* the condition and the position after it.
Fail == [ok |-> FALSE]
Read(e, next) == [ok |-> TRUE, e |-> e, next |-> next]
\* Two conditions joined by op.
Joined(op, l, r) ==
    IF ~r.ok THEN Fail ELSE Read([op |-> op, l |-> l.e, r |-> r.e], r.next)
\* An operand of a comparison: a quoted text or a column.
ParseOperand(ts, i) ==
    IF i <= Len(ts) /\ ts[i].k = "str" THEN Read([op |-> "str", v |-> ts[i].v], i + 1)
    ELSE IF IsName(ts, i) THEN Read([op |-> "col", v |-> to_uppercase(ts[i].v)], i + 1)
    ELSE Fail
\* A condition: comparisons with =, joined by AND, these joined by OR (AND
\* binds before OR), parentheses around a condition.
RECURSIVE ParseOr(_, _)
RECURSIVE ParseAnd(_, _)
ParseClosed(ts, inner) ==
    IF inner.ok /\ IsSym(ts, inner.next, ")") THEN Read(inner.e, inner.next + 1) ELSE Fail
ParseEquals(ts, l) ==
    IF ~l.ok \/ ~IsSym(ts, l.next, "=") THEN Fail
    ELSE Joined("=", l, ParseOperand(ts, l.next + 1))
ParseAtom(ts, i) ==
    IF IsSym(ts, i, "(") THEN ParseClosed(ts, ParseOr(ts, i + 1))
    ELSE ParseEquals(ts, ParseOperand(ts, i))
ParseAndMore(ts, l) ==
    IF ~l.ok \/ ~IsWord(ts, l.next, "AND") THEN l
    ELSE Joined("and", l, ParseAnd(ts, l.next + 1))
ParseAnd(ts, i) == ParseAndMore(ts, ParseAtom(ts, i))
ParseOrMore(ts, l) ==
    IF ~l.ok \/ ~IsWord(ts, l.next, "OR") THEN l
    ELSE Joined("or", l, ParseOr(ts, l.next + 1))
ParseOr(ts, i) == ParseOrMore(ts, ParseAnd(ts, i))

\* The select list: * or names separated by commas.
RECURSIVE ParseList(_, _)
ListedFirst(name, r) == IF ~r.ok THEN Fail ELSE [r EXCEPT !.list = <<name>> \o @]
ParseList(ts, i) ==
    IF ~IsName(ts, i) THEN Fail
    ELSE IF ~IsSym(ts, i + 1, ",")
    THEN [ok |-> TRUE, list |-> <<to_uppercase(ts[i].v)>>, next |-> i + 1]
    ELSE ListedFirst(to_uppercase(ts[i].v), ParseList(ts, i + 2))
\* [ORDER BY column]
ParseOrder(ts, i) ==
    IF IsWord(ts, i, "ORDER") /\ IsWord(ts, i + 1, "BY") /\ IsName(ts, i + 2)
    THEN [order |-> to_uppercase(ts[i + 2].v), next |-> i + 3]
    ELSE [order |-> "", next |-> i]
\* [LIMIT n [OFFSET m]]
ParseLimit(ts, i) ==
    IF ~(IsWord(ts, i, "LIMIT") /\ IsNum(ts, i + 1))
    THEN [limit |-> None, offset |-> 0, next |-> i]
    ELSE IF IsWord(ts, i + 2, "OFFSET") /\ IsNum(ts, i + 3)
    THEN [limit |-> Some(Number(ts[i + 1].v)), offset |-> Number(ts[i + 3].v), next |-> i + 4]
    ELSE [limit |-> Some(Number(ts[i + 1].v)), offset |-> 0, next |-> i + 2]

\* SELECT list FROM schema.table [WHERE condition] [ORDER BY column]
\* [LIMIT n [OFFSET m]], and nothing after it: the statement read, with its
\* select list, the tokens of schema and table, its condition ("true" if it
\* has none), the column it orders by ("" if none), limit and offset.
ParseEnd(ts, list, s, e, order, lim) ==
    IF lim.next # Len(ts) + 1 THEN Fail
    ELSE [ok |-> TRUE, list |-> list, schema |-> ts[s], table |-> ts[s + 2],
          filtered |-> e.op # "true", where |-> e, order |-> order,
          limit |-> lim.limit, offset |-> lim.offset]
ParseOrdered(ts, list, s, e, ord) ==
    ParseEnd(ts, list, s, e, ord.order, ParseLimit(ts, ord.next))
ParseWhere(ts, list, s, where) ==
    IF ~where.ok THEN Fail
    ELSE ParseOrdered(ts, list, s, where.e, ParseOrder(ts, where.next))
ParseFrom(ts, list) ==
    IF \/ ~list.ok
       \/ ~IsWord(ts, list.next, "FROM")
       \/ ~IsName(ts, list.next + 1)
       \/ ~IsSym(ts, list.next + 2, ".")
       \/ ~IsName(ts, list.next + 3)
    THEN Fail
    ELSE ParseWhere(ts, list.list, list.next + 1,
                    IF IsWord(ts, list.next + 4, "WHERE") THEN ParseOr(ts, list.next + 5)
                    ELSE Read([op |-> "true"], list.next + 4))
ParseSelect(ts) ==
    IF ~IsWord(ts, 1, "SELECT") THEN Fail
    ELSE ParseFrom(ts, IF IsSym(ts, 2, "*")
                       THEN [ok |-> TRUE, list |-> <<"*">>, next |-> 3]
                       ELSE ParseList(ts, 2))

\* The columns a condition names.
RECURSIVE ColumnsIn(_)
ColumnsIn(e) ==
    CASE e.op = "col" -> {e.v}
      [] e.op \in {"str", "true"} -> {}
      [] e.op \in {"=", "and", "or"} -> ColumnsIn(e.l) \cup ColumnsIn(e.r)
\* The text of an operand for a row, given as the text of each of its columns.
TextOf(x, env) == IF x.op = "str" THEN x.v ELSE env[x.v]
\* The condition holds of the row. Texts are equal when they are the same
\* text.
RECURSIVE Satisfies(_, _)
Satisfies(e, env) ==
    CASE e.op = "true" -> TRUE
      [] e.op = "=" -> TextOf(e.l, env) = TextOf(e.r, env)
      [] e.op = "and" -> Satisfies(e.l, env) /\ Satisfies(e.r, env)
      [] e.op = "or" -> Satisfies(e.l, env) \/ Satisfies(e.r, env)

\* The server's error texts: for a statement on an object it does not have,
\* and for a statement it cannot read.
NoSuchTable == "no such table"
SyntaxError == "syntax error"

\* What fetch_all can return for a statement the server answers with rows.
FetchAll(rows) == { Ok(rows), Err(TransportError) }

\* The objects of a catalog in the order the server lists them.
SchemaOrder == <<"d", "e">>
CatalogOrder ==
    [i \in 1..(Len(SchemaOrder) * Len(NameOrder)) |->
        Key(SchemaOrder[((i - 1) \div Len(NameOrder)) + 1],
            NameOrder[((i - 1) % Len(NameOrder)) + 1])]
KeysOf(b) == LET Held(k) == k \in DOMAIN b IN SelectSeq(CatalogOrder, Held)
ViewsOf(b) == LET IsView(k) == k \in DOMAIN b /\ b[k].type = "VIEW" IN SelectSeq(CatalogOrder, IsView)
RECURSIVE Flatten(_)
Flatten(seqs) == IF seqs = <<>> THEN <<>> ELSE Head(seqs) \o Flatten(Tail(seqs))

\* A row of an information_schema table: env the text of each column a
\* condition can name, pos its ORDINAL_POSITION (0 where the table has none),
\* out the values of the select list that the driver reads.
\* information_schema.TABLES: one row per table and view; out is TABLE_NAME.
TablesRow(k, obj) ==
    [env |-> [TABLE_SCHEMA |-> k[1], TABLE_NAME |-> k[2], TABLE_TYPE |-> obj.type],
     pos |-> 0,
     out |-> <<Raw(k[2], {"String"})>>]
InfoTables(b) == [i \in 1..Len(KeysOf(b)) |-> TablesRow(KeysOf(b)[i], b[KeysOf(b)[i]])]
\* information_schema.VIEWS: one row per view; out is TABLE_NAME.
ViewsRow(k) ==
    [env |-> [TABLE_SCHEMA |-> k[1], TABLE_NAME |-> k[2]],
     pos |-> 0,
     out |-> <<Raw(k[2], {"String"})>>]
InfoViews(b) == [i \in 1..Len(ViewsOf(b)) |-> ViewsRow(ViewsOf(b)[i])]
\* information_schema.COLUMNS: one row per column of each table and view; out
\* is COLUMN_NAME, COLUMN_TYPE, IS_NULLABLE, COLUMN_KEY and EXTRA.
ColumnsRow(k, col, i) ==
    [env |-> [TABLE_SCHEMA |-> k[1], TABLE_NAME |-> k[2],
              COLUMN_NAME |-> col.name, COLUMN_TYPE |-> col.column_type,
              IS_NULLABLE |-> col.is_nullable,
              COLUMN_KEY |-> col.column_key, EXTRA |-> col.extra],
     pos |-> i,
     out |-> <<Raw(col.name, {"String"}), Raw(col.column_type, {"String"}),
               Raw(col.is_nullable, {"String"}),
               Raw(col.column_key, {"String"}), Raw(col.extra, {"String"})>>]
ColumnsRows(k, cols) == [i \in 1..Len(cols) |-> ColumnsRow(k, cols[i], i)]
InfoColumns(b) ==
    Flatten([i \in 1..Len(KeysOf(b)) |-> ColumnsRows(KeysOf(b)[i], b[KeysOf(b)[i]].columns)])

\* The orders the server can return rows in when the statement asks for
\* none: any.
Orders(rows) ==
    { [i \in 1..Len(rows) |-> rows[p[i]]] : p \in Permutations(1..Len(rows)) }
\* ORDER BY ORDINAL_POSITION: the rows by position, rows of one position in
\* any order.
RECURSIVE FromPosition(_, _)
FromPosition(rows, p) ==
    IF \A i \in 1..Len(rows) : rows[i].pos < p THEN { <<>> }
    ELSE LET At(r) == r.pos = p
         IN  { first \o rest : first \in Orders(SelectSeq(rows, At)),
                               rest \in FromPosition(rows, p + 1) }
ByPosition(rows) == FromPosition(rows, 1)

\* The information_schema tables the driver reads, with the select list it
\* reads each with.
InfoLists ==
    [TABLES |-> <<"TABLE_NAME", "ENGINE", "TABLE_ROWS", "DATA_LENGTH">>,
     VIEWS |-> <<"TABLE_NAME", "VIEW_DEFINITION">>,
     COLUMNS |-> <<"COLUMN_NAME", "COLUMN_TYPE", "IS_NULLABLE", "COLUMN_DEFAULT",
                   "COLUMN_KEY", "EXTRA", "COLUMN_COMMENT">>]
InfoRows(b, name) ==
    CASE name = "TABLES" -> InfoTables(b)
      [] name = "VIEWS" -> InfoViews(b)
      [] name = "COLUMNS" -> InfoColumns(b)
\* The columns of each a condition can name here.
InfoColumnNames(name) ==
    {"TABLE_SCHEMA", "TABLE_NAME"}
    \cup (IF name = "TABLES" THEN {"TABLE_TYPE"} ELSE {})
    \cup (IF name = "COLUMNS"
          THEN {"COLUMN_NAME", "COLUMN_TYPE", "IS_NULLABLE", "COLUMN_KEY", "EXTRA"} ELSE {})

\* The statement reads information_schema (a name that matches in any case).
OnInfoSchema(q) == to_uppercase(q.schema.v) = "INFORMATION_SCHEMA"
\* The statements answered here: one of the three information_schema tables
\* with the driver's select list, a condition on the columns above and no
\* order but ORDER BY ORDINAL_POSITION on COLUMNS; or SELECT * of a table with
\* no condition and no order.
AnsweredInfo(q, name) ==
    /\ name \in DOMAIN InfoLists
    /\ q.list = InfoLists[name]
    /\ ColumnsIn(q.where) \subseteq InfoColumnNames(name)
    /\ q.order \in (IF name = "COLUMNS" THEN {"", "ORDINAL_POSITION"} ELSE {""})
Answered(q) ==
    IF OnInfoSchema(q) THEN AnsweredInfo(q, to_uppercase(q.table.v))
    ELSE q.list = <<"*">> /\ ~q.filtered /\ q.order = ""

\* LIMIT limit OFFSET offset, where the statement has them.
Window(rows, q) ==
    IF IsSome(q.limit) THEN Take(Skip(rows, q.offset), Unwrap(q.limit)) ELSE rows
\* What the driver reads of each row.
Outs(rows) == [i \in 1..Len(rows) |-> rows[i].out]
\* The rows of an information_schema table the statement keeps, in each
\* order the server can return them in.
Selected(rows, q) ==
    LET Wanted(r) == Satisfies(q.where, r.env) IN
    IF q.order = "" THEN Orders(SelectSeq(rows, Wanted)) ELSE ByPosition(SelectSeq(rows, Wanted))

\* What the server can answer the statement with: the rows it selects, or
\* its error.
Select(b, q) ==
    IF OnInfoSchema(q)
    THEN { Ok(Window(Outs(rows), q)) : rows \in Selected(InfoRows(b, to_uppercase(q.table.v)), q) }
    ELSE IF Key(q.schema.v, q.table.v) \in DOMAIN b
         THEN { Ok(Window(RowsOf(b[Key(q.schema.v, q.table.v)]), q)) }
         ELSE { Err(NoSuchTable) }

\* The server's answers to a statement text. A text with a quote that is
\* never closed is an error; a text of SqlAlphabet that reads as a statement
\* answered here gets its rows. The model has no answer for any other text.
Answer(b, q) == CASE q.ok /\ Answered(q) -> Select(b, q)
AnswerTokens(b, ts) ==
    IF ts # <<>> /\ ts[Len(ts)].k = "open" THEN { Err(SyntaxError) }
    ELSE Answer(b, ParseSelect(ts))
Server(b, text) == CASE CharsOf(text) \subseteq SqlAlphabet -> AnswerTokens(b, Lex(text))

\* sqlx::query(text).fetch_all(&self.pool): an answer of the server, or the
\* transport's failure.
fetch_all(b, text) == Server(b, text) \cup { Err(TransportError) }

\* DELETE FROM database.table WHERE id = id: the rows left.
RECURSIVE Unmatched(_, _)
Unmatched(rows, id) ==
    IF rows = <<>> THEN <<>>
    ELSE IF Head(rows)[1].v = id THEN Unmatched(Tail(rows), id)
         ELSE <<Head(rows)>> \o Unmatched(Tail(rows), id)

\* The statements the driver is handed in this model.
Delete(database, table, id) ==
    [database |-> database, table |-> table, id |-> id]

(***************************************************************************)
(* db::mysql: the calls of the DatabaseConnection trait on a catalog b.    *)
(* Each is the set of what the call can return.                            *)
(***************************************************************************)
\* rows.iter().filter_map(...) of list_tables and list_views: the rows whose
\* name reads as a String.
RECURSIVE NamedIn(_, _)
NamedIn(rows, database) ==
    IF rows = <<>> THEN <<>>
    ELSE LET name == try_get(Head(rows)[1], "String")
             rest == NamedIn(Tail(rows), database)
         IN  IF IsSome(name) THEN <<TableInfo(Unwrap(name), database)>> \o rest
             ELSE rest

\* MySqlConnection::list_tables
mysql_list_tables(b, database) ==
    { IF f.ok THEN Ok(NamedIn(Val(f), database)) ELSE Err(QueryFailed(f.e))
      : f \in fetch_all(b, list_tables_query(database)) }

\* MySqlConnection::list_views
mysql_list_views(b, database) ==
    { IF f.ok THEN Ok(NamedIn(Val(f), database)) ELSE Err(QueryFailed(f.e))
      : f \in fetch_all(b, list_views_query(database)) }

ColumnDetails(name, data_type, nullable, is_primary_key, is_auto_increment) ==
    [name |-> name, data_type |-> data_type, nullable |-> nullable,
     is_primary_key |-> is_primary_key, is_auto_increment |-> is_auto_increment]
\* The TableInfo describe_table builds: engine, row_count and data_size None.
DescribedTable(name, database, columns) ==
    [name |-> name, database |-> database, columns |-> columns]

\* unwrap_or_default of a String read.
unwrap_or_default(got) == IF IsSome(got) THEN Unwrap(got) ELSE ""
\* extra.contains("auto_increment")
contains_auto_increment(extra) == contains(extra, "auto_increment")

\* rows.iter().filter_map(...) of describe_table.
RECURSIVE DetailsIn(_)
DetailsIn(rows) ==
    IF rows = <<>> THEN <<>>
    ELSE LET row == Head(rows)
             name == try_get(row[1], "String")
             data_type == try_get(row[2], "String")
             nullable == try_get(row[3], "String")
             column_key == unwrap_or_default(try_get(row[4], "String"))
             extra == unwrap_or_default(try_get(row[5], "String"))
             rest == DetailsIn(Tail(rows))
         IN  IF IsSome(name) /\ IsSome(data_type) /\ IsSome(nullable)
             THEN <<ColumnDetails(Unwrap(name), Unwrap(data_type),
                                  Unwrap(nullable) = "YES", column_key = "PRI",
                                  contains_auto_increment(extra))>> \o rest
             ELSE rest

\* MySqlConnection::describe_table
mysql_describe_table(b, database, table) ==
    { IF f.ok THEN Ok(DescribedTable(table, database, DetailsIn(Val(f))))
      ELSE Err(QueryFailed(f.e))
      : f \in fetch_all(b, describe_table_query(database, table)) }

\* MySqlConnection::get_table_data
mysql_get_table_data(b, database, table, limit, offset) ==
    { mysql_execute_query(f, t)
      : f \in fetch_all(b, get_table_data_sql(database, table, limit, offset)),
        t \in ExecTimes }

\* What execute() can return for a DELETE and the catalog it leaves: the
\* count of the rows removed, or an error with the catalog as it was.
Execute(b, stmt) ==
    LET key == Key(stmt.database, stmt.table) IN
    IF key \in DOMAIN b
    THEN LET left == Unmatched(b[key].rows, stmt.id) IN
         { [res |-> Ok(Len(b[key].rows) - Len(left)),
            b |-> [b EXCEPT ![key].rows = left]],
           [res |-> Err(TransportError), b |-> b] }
    ELSE { [res |-> Err(NoSuchTable), b |-> b], [res |-> Err(TransportError), b |-> b] }

\* An execute_statement that would report whether any row was affected
\* rather than how many. The driver's call must differ from it (C20).
mysql_execute_statement_any(b, stmt) ==
    { [res |-> IF x.res.ok THEN Ok(IF Val(x.res) > 0 THEN 1 ELSE 0)
               ELSE Err(QueryFailed(x.res.e)),
       b |-> x.b]
      : x \in Execute(b, stmt) }

\* MySqlConnection::execute_statement
mysql_execute_statement(b, stmt) ==
    { [res |-> IF x.res.ok THEN x.res ELSE Err(QueryFailed(x.res.e)), b |-> x.b]
      : x \in Execute(b, stmt) }

(***************************************************************************)
(* db::mysql, as far as the bridge sees it: what each call can return.     *)
(* Each outcome carries the number of physical connection attempts made.   *)
(***************************************************************************)
Outcome(res, attempts) == [res |-> res, attempts |-> attempts]

\* A live MySqlConnection (its pool was opened from cfg).
MySqlConnection(cfg) == [pool |-> cfg]

\* MySqlConnection::connect: one attempt, which the transport accepts or not.
MySqlConnect(cfg) ==
    { Outcome(Ok(MySqlConnection(cfg)), 1),
      Outcome(Err(ConnectionFailed(TransportError)), 1) }

\* MySqlConnection::test_connection (SELECT 1).
\* The unit value ().
Unit == "()"
\* A probe that would report its failure as a failed query. The driver's
\* probe must differ from it (C21).
MySqlTestConnectionAsQuery == { Ok(Unit), Err(QueryFailed(TransportError)) }

MySqlTestConnection == { Ok(Unit), Err(ConnectionFailed(TransportError)) }

\* MySqlConnection::close: the pool is closed; there is no failure path.
MySqlClose == { Ok(Unit) }

\* The rows SHOW DATABASES answers with for a listing: one name per row.
ShowDatabases(l) == [i \in 1..Len(l) |-> <<Raw(l[i].name, {"String"})>>]

\* A listing that would sort the names it read (here: b before a). The
\* driver's listing must differ from it (C26).
RECURSIVE DatabasesInSorted(_)
DatabasesInSorted(rows) ==
    LET read == { i \in 1..Len(rows) : IsSome(try_get(rows[i][1], "String")) } IN
    IF read = {} THEN <<>>
    ELSE LET first == CHOOSE i \in read :
                          \A j \in read : rows[i][1].v = "b" \/ rows[j][1].v # "b"
         IN  <<DatabaseInfo(rows[first][1].v)>>
                 \o DatabasesInSorted([k \in 1..(Len(rows) - 1) |->
                                          IF k < first THEN rows[k] ELSE rows[k + 1]])

\* rows.iter().filter_map(...) of list_databases: the rows whose first column
\* reads as a String, in the order fetched.
RECURSIVE DatabasesIn(_)
DatabasesIn(rows) ==
    IF rows = <<>> THEN <<>>
    ELSE LET name == try_get(Head(rows)[1], "String")
             rest == DatabasesIn(Tail(rows))
         IN  IF IsSome(name) THEN <<DatabaseInfo(Unwrap(name))>> \o rest ELSE rest

\* MySqlConnection::list_databases, from the answer of fetch_all on.
mysql_list_databases(fetched) ==
    IF fetched.ok THEN Ok(DatabasesIn(Val(fetched))) ELSE Err(QueryFailed(fetched.e))

MySqlListDatabases ==
    { mysql_list_databases(f) : f \in UNION { FetchAll(ShowDatabases(l)) : l \in DbListings } }
MySqlListTables(db) ==
    { Ok(l) : l \in TableListings(db) } \cup { Err(QueryFailed(TransportError)) }
MySqlListViews(db) ==
    { Ok(l) : l \in ViewListings(db) } \cup { Err(QueryFailed(TransportError)) }
\* The rows the server answers the editor's statements with: none, or one.
Answers == { <<>>, RowsOf(Object("BASE TABLE", <<IdColumn>>, << <<Raw(1, {"i64"})>> >>)) }
MySqlExecuteQuery(sql) ==
    { mysql_execute_query(f, t)
      : f \in UNION { FetchAll(rows) : rows \in Answers }, t \in ExecTimes }
MySqlExecuteStatement(sql) ==
    { Ok(n) : n \in AffectedCounts } \cup { Err(QueryFailed(TransportError)) }

\* A factory that would hand every backend tag to the MySQL driver. The
\* program's factory must differ from it (C10).
create_connection_any_tag(cfg) == MySqlConnect(cfg)

(***************************************************************************)
(* db::create_connection: the factory.                                     *)
(***************************************************************************)
create_connection(cfg) ==
    CASE cfg.db_type = "MySQL" -> MySqlConnect(cfg)
      [] cfg.db_type = "PostgreSQL" ->
            { Outcome(Err(UnsupportedType("PostgreSQL support coming soon")), 0) }
      [] cfg.db_type = "SQLite" ->
            { Outcome(Err(UnsupportedType("SQLite support coming soon")), 0) }
      [] cfg.db_type = "MongoDB" ->
            { Outcome(Err(UnsupportedType("MongoDB support coming soon")), 0) }

(***************************************************************************)
(* config::AppConfig: one HashMap of stored connections per backend.       *)
(***************************************************************************)
\* StoredConnection (config/mod.rs:23-44): file is the path of a SQLite
\* database.
StoredConnection(name, database, file) ==
    [name |-> name, database |-> database, file |-> file]

SectionOf(db_type) ==
    CASE db_type = "MySQL" -> "mysql"
      [] db_type = "PostgreSQL" -> "postgres"
      [] db_type = "SQLite" -> "sqlite"
      [] db_type = "MongoDB" -> "mongodb"

EmptyAppConfig ==
    [mysql |-> EmptyMap, postgres |-> EmptyMap, sqlite |-> EmptyMap,
     mongodb |-> EmptyMap]

connection_config_to_stored(config) ==
    StoredConnection(config.name, config.database, None)

stored_to_connection_config(key, stored, db_type) ==
    Config(IF stored.name = "" THEN key ELSE stored.name, db_type, stored.database)

\* config/mod.rs:154-175: the SQLite entry also stores the database as its
\* file.
save_connection(ac, config) ==
    LET stored == connection_config_to_stored(config) IN
    [ac EXCEPT ![SectionOf(config.db_type)] =
        Insert(@, config.name,
               IF config.db_type = "SQLite"
               THEN [stored EXCEPT !.file = Some(config.database)]
               ELSE stored)]

remove_connection(ac, name, db_type) ==
    [ac EXCEPT ![SectionOf(db_type)] = Remove(@, name)]

\* The orders in which a HashMap can be iterated.
Enumerations(S) ==
    { q \in [1..Cardinality(S) -> S] : \A i, j \in 1..Cardinality(S) : i # j => q[i] # q[j] }

\* One loop of get_connections (config/mod.rs:112-150): the SQLite loop uses
\* the stored file, when there is one, as the database.
SectionConnection(key, stored, db_type) ==
    LET conn == stored_to_connection_config(key, stored, db_type) IN
    IF db_type = "SQLite" /\ IsSome(stored.file)
    THEN [conn EXCEPT !.database = Unwrap(stored.file)]
    ELSE conn

SectionConnections(ac, db_type) ==
    { [i \in 1..Len(q) |->
          SectionConnection(q[i], ac[SectionOf(db_type)][q[i]], db_type)]
      : q \in Enumerations(DOMAIN ac[SectionOf(db_type)]) }

\* AppConfig::get_connections: the lists it can return.
get_connections(ac) ==
    { m \o p \o l \o g :
        m \in SectionConnections(ac, "MySQL"), p \in SectionConnections(ac, "PostgreSQL"),
        l \in SectionConnections(ac, "SQLite"), g \in SectionConnections(ac, "MongoDB") }

\* The config.toml files the program is started with: none, or one with
\* [mysql.prod] (database "a") and [sqlite.local] (file "/local.db").
InitialConfigs ==
    { EmptyAppConfig,
      [EmptyAppConfig EXCEPT
          !.mysql = Insert(EmptyMap, "prod", StoredConnection("", "a", None)),
          !.sqlite = Insert(EmptyMap, "local",
                            StoredConnection("local", "", Some("/local.db")))] }

(***************************************************************************)
(* A driver call on its own: the catalog it runs on, the call and its      *)
(* result, and the describe_table call made before it.                     *)
(***************************************************************************)
\* The arguments of a call of the DatabaseConnection trait (id: the key the
\* statement's WHERE clause names).
Args(database, table, id, limit, offset) ==
    [database |-> database, table |-> table, id |-> id, limit |-> limit,
     offset |-> offset]
NoArgs == Args("", "", 0, 0, 0)
\* A call: its arguments, the rows the server answers execute_query with, and
\* what it returned (None until it has).
Call(op, args, fetched, res) ==
    [op |-> op, args |-> args, fetched |-> fetched, res |-> res]
NoCall == Call("none", NoArgs, <<>>, None)

EmptyCatalog == [k \in {} |-> Object("", <<>>, <<>>)]
\* The session of Spec makes no call of its own on the driver.
NoDriver == [b |-> EmptyCatalog, call |-> NoCall, seen |-> None]

\* A seeded server: database d with table t and view v, database e with
\* table t, whose key column is hidden; no object is named u.
Seeded ==
    [k \in {Key("d", "t"), Key("d", "v"), Key("e", "t")} |->
        CASE k = Key("d", "t") -> Object("BASE TABLE", <<IdColumn, QtyColumn>>, SeedRows(MaxRows))
          [] k = Key("d", "v") -> Object("VIEW", <<IdColumn, QtyColumn>>, SeedRows(1))
          [] k = Key("e", "t") -> Object("BASE TABLE", <<HiddenIdColumn, QtyColumn>>, SeedRows(1))]

\* ALTER TABLE ... ADD COLUMN note: the rows get NULL in the new column.
AddNote(obj) ==
    Object(obj.type, Append(obj.columns, NoteColumn),
           [i \in 1..Len(obj.rows) |-> Append(obj.rows[i], Raw(0, {}))])

\* The catalogs another session's DDL can turn b into.
SchemaChanges(b) ==
    { [b EXCEPT ![k] = AddNote(b[k])]
      : k \in { k \in DOMAIN b : b[k].type = "BASE TABLE" /\ Len(b[k].columns) = 2
                                    /\ k[1] = "d" } }
    \cup { Remove(b, k) : k \in { k \in DOMAIN b : b[k].type = "VIEW" } }

(***************************************************************************)
(* ui::tabs::TabBar: the tabs of the editor and the active one.            *)
(***************************************************************************)
\* The tabs a bar holds at most, and the identifiers Uuid::new_v4 draws from.
MaxTabs == 3
MaxUuids == 4
Uuids == 1..MaxUuids
Titles == {"Query 1", "Query 2"}

\* Tab::new (ui/tabs.rs:14-20), id the value Uuid::new_v4 returned.
NewTab(title, id) == [id |-> id, title |-> title, is_modified |-> FALSE]

\* TabBar::new: the Default of the struct.
NewTabBar == [tabs |-> <<>>, active_tab |-> None]

\* TabBar::add_tab, tab the Tab it made: the bar it leaves and the id it
\* returns.
add_tab(bar, tab) ==
    [bar |-> [tabs |-> Append(bar.tabs, tab), active_tab |-> Some(tab.id)],
     ret |-> tab.id]

\* Iterator::position on the ids of the tabs, counted from 0.
position(tabs_, id) ==
    LET found == { i \in 1..Len(tabs_) : tabs_[i].id = id }
    IN  IF found = {} THEN None
        ELSE Some((CHOOSE i \in found : \A j \in found : i <= j) - 1)

\* slice::get, counted from 0.
Get(v, i) == IF i < Len(v) THEN Some(v[i + 1]) ELSE None
saturating_sub(a, b) == IF a >= b THEN a - b ELSE 0

\* A close_tab that would look for the next active tab at the place of the
\* closed one. The program's close_tab must differ from it (C40).
close_tab_in_place(bar, id) ==
    LET found == position(bar.tabs, id) IN
    IF found = None THEN bar
    ELSE LET pos == Unwrap(found)
             left == VecRemove(bar.tabs, pos + 1)
             at == Get(left, pos)
         IN  [tabs |-> left,
              active_tab |-> IF bar.active_tab = Some(id)
                             THEN (IF at = None THEN None ELSE Some(Unwrap(at).id))
                             ELSE bar.active_tab]

\* TabBar::close_tab (ui/tabs.rs:49-56)
close_tab(bar, id) ==
    LET found == position(bar.tabs, id) IN
    IF found = None THEN bar
    ELSE LET pos == Unwrap(found)
             left == VecRemove(bar.tabs, pos + 1)
             at == Get(left, saturating_sub(pos, 1))
         IN  [tabs |-> left,
              active_tab |-> IF bar.active_tab = Some(id)
                             THEN (IF at = None THEN None ELSE Some(Unwrap(at).id))
                             ELSE bar.active_tab]

(***************************************************************************)
(* State.                                                                  *)
(***************************************************************************)
VARIABLES
    app,      \* the fields of NebulaApp (main.rs:31-77)
    tasks,    \* the futures alive on the tokio runtime, by identity
    chans,    \* the one-shot channels alive, by the identity of their task
    mutex,    \* the tokio Mutex around the session connection
    clicks,   \* the widget events handled so far
    drv,      \* a driver call on its own: the server's catalog and the call
    tab_bar,  \* a TabBar on its own (ui/tabs.rs:31-34)
    block     \* the block of update() the caller runs next: 1..6 the poll of
              \* a slot, in the order of poll_async_tasks, 7 the widgets

vars == <<app, tasks, chans, mutex, clicks, drv, tab_bar, block>>

Ids == 1..MaxLive

\* NebulaApp::new
NewApp(ac, conns) ==
    [connection |-> None,
     connection_config |-> None,
     connection_state |-> "Disconnected",
     app_config |-> ac,
     connections |-> conns,
     view_state |-> "Welcome",
     form_config |-> DefaultConfig,
     form_testing |-> FALSE,
     form_test_result |-> None,
     databases |-> <<>>,
     tables |-> EmptyMap,
     views |-> EmptyMap,
     expanded_databases |-> {},
     selected_database |-> None,
     selected_table |-> None,
     schema_loading |-> FALSE,
     query_content |-> EmptySql,
     query_executing |-> FALSE,
     query_result |-> None,
     result_error |-> None,
     pending_connection |-> None,
     pending_databases |-> None,
     pending_tables |-> None,
     pending_views |-> None,
     pending_query |-> None,
     pending_test |-> None]

Slots ==
    {"pending_connection", "pending_test", "pending_databases", "pending_tables",
     "pending_views", "pending_query"}

\* The operation kind a slot completes.
KindOf(slot) ==
    CASE slot = "pending_connection" -> "connect"
      [] slot = "pending_test" -> "test"
      [] slot = "pending_databases" -> "databases"
      [] slot = "pending_tables" -> "tables"
      [] slot = "pending_views" -> "views"
      [] slot = "pending_query" -> "query"

\* The kinds whose task takes the session connection's lock.
LockKinds == {"databases", "tables", "views", "query"}

(***************************************************************************)
(* tokio::sync::oneshot, as the program uses it.                           *)
(***************************************************************************)
\* oneshot::channel(): no value yet, both halves alive.
NewChannel == [val |-> None, tx |-> TRUE, rx |-> TRUE]

\* Receiver::try_recv: the value if one was sent and not yet taken.
try_recv(ch) == ch.val

\* The channel after a successful try_recv: the value has moved out.
Taken(cs, id) == [cs EXCEPT ![id].val = None]

\* Dropping the Receiver; the channel is freed once both halves are gone.
DropRx(cs, id) ==
    IF cs[id].tx THEN [cs EXCEPT ![id].rx = FALSE] ELSE Remove(cs, id)

\* Sender::send consumes the Sender; the value is dropped with the channel
\* when the Receiver is gone ("let _ = tx.send(result)").
Send(cs, id, r) ==
    IF cs[id].rx THEN [cs EXCEPT ![id].val = Some(r), ![id].tx = FALSE]
    ELSE Remove(cs, id)

(***************************************************************************)
(* The caller's side of the bridge. The operators below take and return a  *)
(* record s = [app, tasks, chans, delivered]: the caller's fields, the     *)
(* runtime's tasks and channels, and the deliveries made so far in the     *)
(* frame.                                                                  *)
(***************************************************************************)
UsedIds(s) == (DOMAIN s.tasks) \cup (DOMAIN s.chans)
FreeIds(s) == Ids \ UsedIds(s)
NewId(s) == CHOOSE i \in FreeIds(s) : \A j \in FreeIds(s) : i <= j

Task(kind, arg) == [kind |-> kind, arg |-> arg, pc |-> "spawned"]

\* runtime.spawn(async move { ... tx.send(result) }) with a fresh channel.
Spawn(s, id, kind, arg) ==
    [s EXCEPT !.tasks = Insert(@, id, Task(kind, arg)),
              !.chans = Insert(@, id, NewChannel)]

\* An assignment that would keep the old Receiver alive next to the new one.
\* The program's assignment must differ from it (C8).
AssignKeepingReceiver(s, slot, v) == [s EXCEPT !.app[slot] = v]

\* self.<slot> = v: the slot's old Receiver, if any, is dropped.
Assign(s, slot, v) ==
    LET old == s.app[slot] IN
    [s EXCEPT !.app[slot] = v,
              !.chans = IF IsSome(old) THEN DropRx(@, Unwrap(old).rx) ELSE @]

Keyed(db, id) == [db |-> db, rx |-> id]
Unkeyed(id) == [db |-> "", rx |-> id]

\* Whether a poll of the slot would receive a value now.
Ready(s, slot) ==
    /\ IsSome(s.app[slot])
    /\ IsSome(try_recv(s.chans[Unwrap(s.app[slot]).rx]))

\* The value a ready slot holds.
Value(s, slot) == Unwrap(try_recv(s.chans[Unwrap(s.app[slot]).rx]))

\* rx.try_recv() returned Ok(result): the value leaves the channel.
Receive(s, slot) ==
    LET id == Unwrap(s.app[slot]).rx IN
    [s EXCEPT !.chans = Taken(@, id),
              !.delivered = Append(@, [slot |-> slot, id |-> id, res |-> s.chans[id].val[1]])]

\* A start that would take the connection lock on the caller's side: with the
\* lock held it cannot complete within the frame. The program's start must
\* differ from it (C6).
StartListDatabasesUnderLock(s) ==
    IF IsSome(mutex.holder) THEN s
    ELSE LET s1 == [s EXCEPT !.app.schema_loading = TRUE]
             id == NewId(s1)
         IN  Assign(Spawn(s1, id, "databases", ""), "pending_databases", Some(Unkeyed(id)))

\* The spawn of list_databases against the session connection and the store
\* of its Receiver (main.rs:135-143 and main.rs:458-466).
StartListDatabases(s) ==
    LET s1 == [s EXCEPT !.app.schema_loading = TRUE]
        id == NewId(s1)
    IN  Assign(Spawn(s1, id, "databases", ""), "pending_databases", Some(Unkeyed(id)))

\* A load that would start its two operations with or without a session
\* connection. The program's load must differ from it (C34).
load_tables_and_views_unguarded(s, db_name) ==
    LET s1 == [s EXCEPT !.app.schema_loading = TRUE]
        t  == NewId(s1)
        s2 == Assign(Spawn(s1, t, "tables", db_name), "pending_tables",
                     Some(Keyed(db_name, t)))
        v  == NewId(s2)
    IN  Assign(Spawn(s2, v, "views", db_name), "pending_views",
               Some(Keyed(db_name, v)))

\* NebulaApp::load_tables_and_views
load_tables_and_views(s, db_name) ==
    IF IsSome(s.app.connection)
    THEN LET s1 == [s EXCEPT !.app.schema_loading = TRUE]
             t  == NewId(s1)
             s2 == Assign(Spawn(s1, t, "tables", db_name), "pending_tables",
                          Some(Keyed(db_name, t)))
             v  == NewId(s2)
         IN  Assign(Spawn(s2, v, "views", db_name), "pending_views",
                    Some(Keyed(db_name, v)))
    ELSE s

\* NebulaApp::connect
connect(s) ==
    LET config == s.app.form_config
        s1 == [s EXCEPT !.app.connections = Append(@, config),
                        !.app.app_config = save_connection(@, config),
                        !.app.connection_config = Some(config),
                        !.app.connection_state = "Connecting"]
        id == NewId(s1)
    IN  Assign(Spawn(s1, id, "connect", config), "pending_connection", Some(Unkeyed(id)))

\* NebulaApp::test_connection
test_connection(s) ==
    LET config == s.app.form_config
        s1 == [s EXCEPT !.app.form_testing = TRUE,
                        !.app.form_test_result = None]
        id == NewId(s1)
    IN  Assign(Spawn(s1, id, "test", config), "pending_test", Some(Unkeyed(id)))

\* A start of a query that would not raise the executing flag. The
\* program's start must differ from it (C32).
execute_query_unflagged(s) ==
    IF IsSome(s.app.connection)
    THEN LET sql == s.app.query_content
             id == NewId(s)
         IN  Assign(Spawn(s, id, "query", sql), "pending_query", Some(Unkeyed(id)))
    ELSE s

\* NebulaApp::execute_query
execute_query(s) ==
    IF IsSome(s.app.connection)
    THEN LET sql == s.app.query_content
             s1 == [s EXCEPT !.app.query_executing = TRUE]
             id == NewId(s1)
         IN  Assign(Spawn(s1, id, "query", sql), "pending_query", Some(Unkeyed(id)))
    ELSE s

(***************************************************************************)
(* NebulaApp::poll_async_tasks, slot by slot in the order of the code.     *)
(***************************************************************************)
\* A poll of the connect slot that would store the connection without
\* starting the listing of its databases. The program's poll must differ
\* from it (C28).
PollConnectionWithoutListing(s) ==
    IF ~Ready(s, "pending_connection") THEN s
    ELSE LET result == Value(s, "pending_connection")
             s1 == Receive(s, "pending_connection")
             s2 == IF result.ok
                   THEN [s1 EXCEPT !.app.connection = Some(Val(result)),
                                   !.app.connection_state = "Connected",
                                   !.app.view_state = "Connected"]
                   ELSE [s1 EXCEPT !.app.connection_state = "Error",
                                   !.app.form_test_result = Some(Err(result.e))]
         IN  Assign(s2, "pending_connection", None)

\* A poll of the connect slot that would show the connected view whatever
\* the result. The program's poll must differ from it (C29).
PollConnectionAlwaysShowing(s) ==
    IF ~Ready(s, "pending_connection") THEN s
    ELSE LET result == Value(s, "pending_connection")
             s1 == Receive(s, "pending_connection")
             s2 == IF result.ok
                   THEN StartListDatabases(
                            [s1 EXCEPT !.app.connection = Some(Val(result)),
                                       !.app.connection_state = "Connected",
                                       !.app.view_state = "Connected"])
                   ELSE [s1 EXCEPT !.app.connection_state = "Error",
                                   !.app.view_state = "Connected",
                                   !.app.form_test_result = Some(Err(result.e))]
         IN  Assign(s2, "pending_connection", None)

\* main.rs:124-152
PollConnection(s) ==
    IF ~Ready(s, "pending_connection") THEN s
    ELSE LET result == Value(s, "pending_connection")
             s1 == Receive(s, "pending_connection")
             s2 == IF result.ok
                   THEN StartListDatabases(
                            [s1 EXCEPT !.app.connection = Some(Val(result)),
                                       !.app.connection_state = "Connected",
                                       !.app.view_state = "Connected"])
                   ELSE [s1 EXCEPT !.app.connection_state = "Error",
                                   !.app.form_test_result = Some(Err(result.e))]
         IN  Assign(s2, "pending_connection", None)

\* A poll of the test slot that would apply the result and leave both the
\* value and the slot in place. The program's poll must differ from it (C1).
PollTestKeepingSlot(s) ==
    IF ~Ready(s, "pending_test") THEN s
    ELSE LET result == Value(s, "pending_test")
             id == Unwrap(s.app.pending_test).rx
         IN  [s EXCEPT !.app.form_testing = FALSE,
                       !.app.form_test_result = Some(result),
                       !.delivered = Append(@, [slot |-> "pending_test", id |-> id,
                                                res |-> result])]

\* A poll of the test slot that would report a failed test as a failure of
\* the session. The program's poll must differ from it (C38).
PollTestFailingSession(s) ==
    IF ~Ready(s, "pending_test") THEN s
    ELSE LET result == Value(s, "pending_test")
             s1 == Receive(s, "pending_test")
             s2 == [s1 EXCEPT !.app.form_testing = FALSE,
                              !.app.form_test_result = Some(result),
                              !.app.connection_state =
                                  IF result.ok THEN @ ELSE "Error"]
         IN  Assign(s2, "pending_test", None)

\* main.rs:154-161
PollTest(s) ==
    IF ~Ready(s, "pending_test") THEN s
    ELSE LET result == Value(s, "pending_test")
             s1 == Receive(s, "pending_test")
             s2 == [s1 EXCEPT !.app.form_testing = FALSE,
                              !.app.form_test_result = Some(result)]
         IN  Assign(s2, "pending_test", None)

\* A filter that would keep every database whatever name was configured.
\* The program's filter must differ from it (C30).
FilterDatabasesKeepingAll(app_, databases) == databases

\* main.rs:169-180: the listing, filtered by the configured database name.
FilterDatabases(app_, databases) ==
    IF IsSome(app_.connection_config) /\ Unwrap(app_.connection_config).database # ""
    THEN FilterByName(databases, Unwrap(app_.connection_config).database)
    ELSE databases

\* A poll of the databases slot that would start the listing again when it
\* failed. The program's poll must differ from it (C11).
PollDatabasesRetrying(s) ==
    IF ~Ready(s, "pending_databases") THEN s
    ELSE LET result == Value(s, "pending_databases")
             s1 == [Receive(s, "pending_databases") EXCEPT !.app.schema_loading = FALSE]
         IN  IF result.ok
             THEN LET filtered == FilterDatabases(s1.app, Val(result))
                      s3 == [s1 EXCEPT !.app.databases = filtered]
                      s2 == IF Len(filtered) = 1
                            THEN load_tables_and_views(
                                     [s3 EXCEPT
                                         !.app.expanded_databases = @ \cup {filtered[1].name},
                                         !.app.selected_database = Some(filtered[1].name)],
                                     filtered[1].name)
                            ELSE s3
                  IN  Assign(s2, "pending_databases", None)
             ELSE StartListDatabases(Assign(s1, "pending_databases", None))

\* main.rs:163-198
PollDatabases(s) ==
    IF ~Ready(s, "pending_databases") THEN s
    ELSE LET result == Value(s, "pending_databases")
             s1 == [Receive(s, "pending_databases") EXCEPT !.app.schema_loading = FALSE]
             s2 == IF result.ok
                   THEN LET filtered == FilterDatabases(s1.app, Val(result))
                            s3 == [s1 EXCEPT !.app.databases = filtered]
                        IN  IF Len(filtered) = 1
                            THEN load_tables_and_views(
                                     [s3 EXCEPT
                                         !.app.expanded_databases = @ \cup {filtered[1].name},
                                         !.app.selected_database = Some(filtered[1].name)],
                                     filtered[1].name)
                            ELSE s3
                   ELSE s1
         IN  Assign(s2, "pending_databases", None)

\* A poll of the tables slot that would clear the loading flag whether or not
\* a result has arrived. The program's poll must differ from it (C5).
PollTablesEager(s) ==
    IF ~Ready(s, "pending_tables") THEN [s EXCEPT !.app.schema_loading = FALSE]
    ELSE LET result == Value(s, "pending_tables")
             db_name == Unwrap(s.app.pending_tables).db
             s1 == [Receive(s, "pending_tables") EXCEPT !.app.schema_loading = FALSE]
             s2 == IF result.ok
                   THEN [s1 EXCEPT !.app.tables = Insert(@, db_name, Val(result))]
                   ELSE s1
         IN  Assign(s2, "pending_tables", None)

\* A poll of the tables slot that would cache an empty listing for the
\* database when the load failed. The program's poll must differ from it (C27).
PollTablesCachingFailure(s) ==
    IF ~Ready(s, "pending_tables") THEN s
    ELSE LET result == Value(s, "pending_tables")
             db_name == Unwrap(s.app.pending_tables).db
             s1 == [Receive(s, "pending_tables") EXCEPT !.app.schema_loading = FALSE]
             s2 == [s1 EXCEPT !.app.tables =
                        Insert(@, db_name, IF result.ok THEN Val(result) ELSE <<>>)]
         IN  Assign(s2, "pending_tables", None)

\* main.rs:200-214
PollTables(s) ==
    IF ~Ready(s, "pending_tables") THEN s
    ELSE LET result == Value(s, "pending_tables")
             db_name == Unwrap(s.app.pending_tables).db
             s1 == [Receive(s, "pending_tables") EXCEPT !.app.schema_loading = FALSE]
             s2 == IF result.ok
                   THEN [s1 EXCEPT !.app.tables = Insert(@, db_name, Val(result))]
                   ELSE s1
         IN  Assign(s2, "pending_tables", None)

\* A poll of the views slot that would append the new listing to the entry
\* already cached for the database. The program's poll must differ from it (C9).
PollViewsMerging(s) ==
    IF ~Ready(s, "pending_views") THEN s
    ELSE LET result == Value(s, "pending_views")
             db_name == Unwrap(s.app.pending_views).db
             s1 == Receive(s, "pending_views")
             prior == IF db_name \in DOMAIN s1.app.views THEN s1.app.views[db_name] ELSE <<>>
             s2 == IF result.ok
                   THEN [s1 EXCEPT !.app.views = Insert(@, db_name, prior \o Val(result))]
                   ELSE s1
         IN  Assign(s2, "pending_views", None)

\* A poll of the views slot that would give up on a slot whose result has
\* not arrived. The program's poll must differ from it (C22).
PollViewsTimingOut(s) ==
    IF IsSome(s.app.pending_views) /\ ~Ready(s, "pending_views")
    THEN Assign(s, "pending_views", None)
    ELSE IF ~Ready(s, "pending_views") THEN s
    ELSE LET result == Value(s, "pending_views")
             db_name == Unwrap(s.app.pending_views).db
             s1 == Receive(s, "pending_views")
             s2 == IF result.ok
                   THEN [s1 EXCEPT !.app.views = Insert(@, db_name, Val(result))]
                   ELSE s1
         IN  Assign(s2, "pending_views", None)

\* A poll of the views slot that would hold a result back until the tables
\* slot, started before it, has resolved. The program's poll must differ from
\* it (C25).
PollViewsAfterTables(s) ==
    IF ~Ready(s, "pending_views") \/ IsSome(s.app.pending_tables) THEN s
    ELSE LET result == Value(s, "pending_views")
             db_name == Unwrap(s.app.pending_views).db
             s1 == Receive(s, "pending_views")
             s2 == IF result.ok
                   THEN [s1 EXCEPT !.app.views = Insert(@, db_name, Val(result))]
                   ELSE s1
         IN  Assign(s2, "pending_views", None)

\* main.rs:216-229
PollViews(s) ==
    IF ~Ready(s, "pending_views") THEN s
    ELSE LET result == Value(s, "pending_views")
             db_name == Unwrap(s.app.pending_views).db
             s1 == Receive(s, "pending_views")
             s2 == IF result.ok
                   THEN [s1 EXCEPT !.app.views = Insert(@, db_name, Val(result))]
                   ELSE s1
         IN  Assign(s2, "pending_views", None)

\* A poll of the query slot that would reset the slot even when no result
\* has arrived. The program's poll must differ from it (C2).
PollQueryDropping(s) ==
    IF ~Ready(s, "pending_query") THEN Assign(s, "pending_query", None)
    ELSE LET result == Value(s, "pending_query")
             s1 == [Receive(s, "pending_query") EXCEPT !.app.query_executing = FALSE]
             s2 == IF result.ok
                   THEN [s1 EXCEPT !.app.query_result = Some(Val(result)),
                                   !.app.result_error = None]
                   ELSE [s1 EXCEPT !.app.query_result = None,
                                   !.app.result_error = Some(result.e)]
         IN  Assign(s2, "pending_query", None)

\* A poll of the query slot that would keep the result of the query before
\* when the new one failed. The program's poll must differ from it (C33).
PollQueryKeepingResult(s) ==
    IF ~Ready(s, "pending_query") THEN s
    ELSE LET result == Value(s, "pending_query")
             s1 == [Receive(s, "pending_query") EXCEPT !.app.query_executing = FALSE]
             s2 == IF result.ok
                   THEN [s1 EXCEPT !.app.query_result = Some(Val(result)),
                                   !.app.result_error = None]
                   ELSE [s1 EXCEPT !.app.result_error = Some(result.e)]
         IN  Assign(s2, "pending_query", None)

\* main.rs:231-247
PollQuery(s) ==
    IF ~Ready(s, "pending_query") THEN s
    ELSE LET result == Value(s, "pending_query")
             s1 == [Receive(s, "pending_query") EXCEPT !.app.query_executing = FALSE]
             s2 == IF result.ok
                   THEN [s1 EXCEPT !.app.query_result = Some(Val(result)),
                                   !.app.result_error = None]
                   ELSE [s1 EXCEPT !.app.query_result = None,
                                   !.app.result_error = Some(result.e)]
         IN  Assign(s2, "pending_query", None)

\* The slots in the order poll_async_tasks looks at them.
SlotOrder ==
    <<"pending_connection", "pending_test", "pending_databases", "pending_tables",
      "pending_views", "pending_query">>

\* A poll that would never look at the query slot. The program's poll must
\* differ from it (C4).
poll_async_tasks_without_query(s, k) ==
    CASE k = 1 -> PollConnection(s)
      [] k = 2 -> PollTest(s)
      [] k = 3 -> PollDatabases(s)
      [] k = 4 -> PollTables(s)
      [] k = 5 -> PollViews(s)
      [] k = 6 -> s

\* NebulaApp::poll_async_tasks (main.rs:123-248), block k of its six: the
\* try_recv of slot SlotOrder[k] and what the caller does with the result.
\* The runtime's tasks run on their own threads while the caller goes from
\* one block to the next.
poll_async_tasks(s, k) ==
    CASE k = 1 -> PollConnection(s)
      [] k = 2 -> PollTest(s)
      [] k = 3 -> PollDatabases(s)
      [] k = 4 -> PollTables(s)
      [] k = 5 -> PollViews(s)
      [] k = 6 -> PollQuery(s)

(***************************************************************************)
(* The widgets of one frame (render_sidebar, render_connection_form,       *)
(* render_schema_browser, render_main_content): which can be clicked in a  *)
(* state, and what the click does.                                         *)
(***************************************************************************)
Event(name, db, item, idx) == [name |-> name, db |-> db, item |-> item, idx |-> idx]
NoEvent == Event("none", "", "", 0)

DatabaseNames(app_) == { app_.databases[i].name : i \in 1..Len(app_.databases) }
NamesIn(listing) == { listing[i].name : i \in 1..Len(listing) }

\* The names the user types into the Name field of the form.
TypedNames == {"x"}

\* The events the frame can offer in state s, after its poll.
Events(s) ==
    LET a == s.app
        listed == IF a.view_state = "Connected" THEN DatabaseNames(a) ELSE {}
        open == listed \cap a.expanded_databases
    IN  {NoEvent}
        \cup (IF a.view_state # "Connected"
              THEN {Event("new_connection", "", "", 0)}
                   \cup {Event("open_saved", "", "", i) : i \in 1..Len(a.connections)}
                   \cup {Event("delete_saved", "", "", i) : i \in 1..Len(a.connections)}
              ELSE {})
        \cup (IF a.view_state = "ConnectionForm"
              THEN {Event("edit_database", d, "", 0) : d \in {"", "a"}}
                   \cup {Event("edit_name", n, "", 0) : n \in TypedNames}
                   \cup (IF ~a.form_testing
                         THEN {Event("test", "", "", 0), Event("connect", "", "", 0),
                               Event("cancel", "", "", 0)}
                         ELSE {})
              ELSE {})
        \cup (IF a.view_state = "Connected"
              THEN {Event("refresh", "", "", 0), Event("clear", "", "", 0)}
                   \cup {Event("edit_query", "", "", i) : i \in 1..2}
                   \cup (IF ~a.query_executing THEN {Event("execute", "", "", 0)} ELSE {})
                   \cup {Event("expand", d, "", 0) : d \in listed \ a.expanded_databases}
                   \cup {Event("collapse", d, "", 0) : d \in open}
                   \cup UNION { IF d \in DOMAIN a.tables
                                THEN {Event("select_table", d, t, 0) : t \in NamesIn(a.tables[d])}
                                     \cup {Event("load_data", d, t, 0) : t \in NamesIn(a.tables[d])}
                                ELSE {} : d \in open }
                   \cup UNION { IF d \in DOMAIN a.views
                                THEN {Event("view_link", d, v, 0) : v \in NamesIn(a.views[d])}
                                ELSE {} : d \in open }
              ELSE {})

\* The text the user types for edit_query i.
TypedQuery(i) == IF i = 1 THEN Sql(" ", "select", " 1") ELSE Sql("", "DELETE", " FROM t")

\* The tasks the handler of an event spawns at most.
SpawnsOf(s, ev) ==
    CASE ev.name \in {"test", "connect", "refresh", "execute", "load_data"} -> 1
      [] ev.name = "expand" -> IF ev.db \in DOMAIN s.app.tables THEN 0 ELSE 2
      [] OTHER -> 0

\* The handler of an event.
Handle(s, ev) ==
    CASE ev.name = "none" -> s
      \* main.rs:418-422
      [] ev.name = "new_connection" ->
            [s EXCEPT !.app.view_state = "ConnectionForm",
                      !.app.form_config = DefaultConfig,
                      !.app.form_test_result = None]
      \* main.rs:436-439
      [] ev.name = "open_saved" ->
            [s EXCEPT !.app.form_config = s.app.connections[ev.idx],
                      !.app.view_state = "ConnectionForm"]
      \* main.rs:441-445
      [] ev.name = "delete_saved" ->
            LET conn == s.app.connections[ev.idx] IN
            [s EXCEPT !.app.connections = VecRemove(@, ev.idx),
                      !.app.app_config = remove_connection(@, conn.name, conn.db_type)]
      \* main.rs:599-601
      [] ev.name = "edit_name" -> [s EXCEPT !.app.form_config.name = ev.db]
      \* main.rs:624-626
      [] ev.name = "edit_database" -> [s EXCEPT !.app.form_config.database = ev.db]
      \* main.rs:636-646
      [] ev.name = "test" -> test_connection(s)
      [] ev.name = "connect" -> connect(s)
      [] ev.name = "cancel" -> [s EXCEPT !.app.view_state = "Welcome"]
      \* main.rs:457-467
      [] ev.name = "refresh" ->
            IF IsSome(s.app.connection) THEN StartListDatabases(s) ELSE s
      \* main.rs:556-562
      [] ev.name = "expand" ->
            LET s1 == [s EXCEPT !.app.expanded_databases = @ \cup {ev.db},
                                !.app.selected_database = Some(ev.db)]
            IN  IF ev.db \notin DOMAIN s1.app.tables
                THEN load_tables_and_views(s1, ev.db) ELSE s1
      \* main.rs:563-565
      [] ev.name = "collapse" -> [s EXCEPT !.app.expanded_databases = @ \ {ev.db}]
      \* main.rs:521-527 and main.rs:566-571
      [] ev.name = "select_table" ->
            [s EXCEPT !.app.selected_table = Some(<<ev.db, ev.item>>),
                      !.app.query_content = SelectAll(ev.db, ev.item)]
      \* main.rs:541-546 and main.rs:569-571
      [] ev.name = "view_link" -> [s EXCEPT !.app.query_content = SelectAll(ev.db, ev.item)]
      \* main.rs:529-531 and main.rs:572-575
      [] ev.name = "load_data" ->
            execute_query([s EXCEPT !.app.query_content = SelectAll(ev.db, ev.item)])
      \* main.rs:671-673
      [] ev.name = "execute" -> execute_query(s)
      \* main.rs:675-677
      [] ev.name = "clear" -> [s EXCEPT !.app.query_content = EmptySql]
      \* main.rs:686-691
      [] ev.name = "edit_query" -> [s EXCEPT !.app.query_content = TypedQuery(ev.idx)]

(***************************************************************************)
(* One frame: NebulaApp::update.                                           *)
(***************************************************************************)
Now == [app |-> app, tasks |-> tasks, chans |-> chans, delivered |-> <<>>]

\* The block after the six of the poll: the widgets.
Widgets == Len(SlotOrder) + 1

\* The bounds leave room for the event's tasks and for the next poll's.
Room(s, ev) ==
    /\ ev # NoEvent => clicks < MaxClicks
    /\ Cardinality(FreeIds(s)) >= SpawnsOf(s, ev) + (IF SpawnsOf(s, ev) > 0 THEN BlockSpawns ELSE 0)
    /\ ev.name = "connect" => Len(s.app.connections) < MaxConns

\* update() goes on by one block of its poll.
PollSlot ==
    /\ block \in 1..Len(SlotOrder)
    /\ LET s == poll_async_tasks(Now, block) IN
       /\ app' = s.app
       /\ tasks' = s.tasks
       /\ chans' = s.chans
    /\ block' = block + 1
    /\ UNCHANGED <<mutex, clicks, drv, tab_bar>>

\* The widgets are drawn from the state the poll left, and the handler of
\* the event ev of this frame runs; update() returns.
FrameOf(p, ev) ==
    /\ Room(p, ev)
    /\ LET s == Handle(p, ev) IN
       /\ app' = s.app
       /\ tasks' = s.tasks
       /\ chans' = s.chans
    /\ clicks' = IF ev = NoEvent THEN clicks ELSE clicks + 1
    /\ block' = 1
    /\ UNCHANGED <<mutex, drv, tab_bar>>

Draw ==
    /\ block = Widgets
    /\ \E ev \in Events(Now) : FrameOf(Now, ev)

\* One step of NebulaApp::update.
Frame == PollSlot \/ Draw

(***************************************************************************)
(* The background tasks.                                                   *)
(***************************************************************************)
\* One run of an async block: the result it sends, the connection attempts
\* it made and the driver calls it made on the connection it created.
Run(res, attempts, calls) == [res |-> res, attempts |-> attempts, calls |-> calls]

\* A block of test_connection that would close its connection once more on
\* the way out. The program's block must differ from it (C23).
BodyRunsClosingTwice(kind, config) ==
    LET made == create_connection(config)
        failed == { o \in made : ~o.res.ok }
        opened == { o \in made : o.res.ok }
    IN  { Run(o.res, o.attempts, <<>>) : o \in failed }
        \cup { Run(t, o.attempts, <<"test_connection">>)
                : t \in { x \in MySqlTestConnection : ~x.ok }, o \in opened }
        \cup (IF kind = "connect"
              THEN { Run(o.res, o.attempts, <<"test_connection">>) : o \in opened }
              ELSE { Run(c, o.attempts, <<"test_connection", "close", "close">>)
                     : c \in MySqlClose, o \in opened })

\* The async block of connect (main.rs:289-293) and of test_connection
\* (main.rs:306-311), DatabaseError rendered by to_string(): create_connection,
\* then the probe, then (test_connection only) close, each failure ending
\* the block.
BodyRuns(kind, config) ==
    LET made == create_connection(config)
        failed == { o \in made : ~o.res.ok }
        opened == { o \in made : o.res.ok }
    IN  { Run(o.res, o.attempts, <<>>) : o \in failed }
        \cup { Run(t, o.attempts, <<"test_connection">>)
                : t \in { x \in MySqlTestConnection : ~x.ok }, o \in opened }
        \cup (IF kind = "connect"
              THEN { Run(o.res, o.attempts, <<"test_connection">>) : o \in opened }
              ELSE { Run(c, o.attempts, <<"test_connection", "close">>)
                     : c \in MySqlClose, o \in opened })

\* The results a block can send, each with the connection attempts it made.
BodyOutcomes(kind, config) ==
    { Outcome(r.res, r.attempts) : r \in BodyRuns(kind, config) }

\* The places a connect or test-connection task is parked at: before its
\* first await, and after each await that returned Ok with more to come.
Parked == <<"spawned", "opened", "probed", "closed">>
Awaited(t) == (CHOOSE n \in 1..Len(Parked) : Parked[n] = t.pc) - 1

\* The awaits of a run: create_connection, then its calls on the connection.
Awaits(r) == 1 + Len(r.calls)

\* A connect or test-connection task goes on by one await of its block
\* (main.rs:290-291 and main.rs:307-309): the await ends the block, which
\* sends the result, or returns Ok and the block goes on to the next.
RunConnect(id) ==
    /\ id \in DOMAIN tasks
    /\ tasks[id].kind \in {"connect", "test"}
    /\ LET n == Awaited(tasks[id]) IN
       \E r \in { x \in BodyRuns(tasks[id].kind, tasks[id].arg) : Awaits(x) > n } :
          IF Awaits(r) = n + 1
          THEN /\ chans' = Send(chans, id, r.res)
               /\ tasks' = Remove(tasks, id)
          ELSE /\ tasks' = [tasks EXCEPT ![id].pc = Parked[n + 2]]
               /\ chans' = chans
    /\ UNCHANGED <<app, mutex, clicks, drv, tab_bar, block>>

\* A lock that would be handed to whoever asks, held or not. The program's
\* lock must differ from it (C3).
AcquireBarging(m, id) == [m EXCEPT !.holder = Some(id)]

\* conn_clone.lock().await: the lock is taken if it is free, else the task
\* joins the queue of waiters (tokio's Mutex is fair: first come, first served).
Acquire(m, id) ==
    IF m.holder = None THEN [m EXCEPT !.holder = Some(id)]
    ELSE [m EXCEPT !.waiters = Append(@, id)]

\* A runtime that would cancel a task once its Receiver is dropped: the
\* task never reaches its lock. The program's tasks must differ from it (C7).
LockUnlessAbandoned(id) ==
    /\ id \in DOMAIN tasks
    /\ tasks[id].kind \in LockKinds
    /\ tasks[id].pc = "spawned"
    /\ chans[id].rx
    /\ mutex' = Acquire(mutex, id)
    /\ tasks' = [tasks EXCEPT ![id].pc = IF mutex'.holder = Some(id) THEN "calling" ELSE "waiting"]
    /\ UNCHANGED <<app, chans, clicks, drv, tab_bar, block>>

\* A task that would go on to its backend call without the lock when the
\* lock is held. The program's task must differ from it (C31).
LockWithoutWaiting(id) ==
    /\ id \in DOMAIN tasks
    /\ tasks[id].kind \in LockKinds
    /\ tasks[id].pc = "spawned"
    /\ mutex' = IF mutex.holder = None THEN Acquire(mutex, id) ELSE mutex
    /\ tasks' = [tasks EXCEPT ![id].pc = "calling"]
    /\ UNCHANGED <<app, chans, clicks, drv, tab_bar, block>>

\* The task's first step: conn_clone.lock().await.
Lock(id) ==
    /\ id \in DOMAIN tasks
    /\ tasks[id].kind \in LockKinds
    /\ tasks[id].pc = "spawned"
    /\ mutex' = Acquire(mutex, id)
    /\ tasks' = [tasks EXCEPT ![id].pc = IF mutex'.holder = Some(id) THEN "calling" ELSE "waiting"]
    /\ UNCHANGED <<app, chans, clicks, drv, tab_bar, block>>

\* A wrapper that would report the rows a statement affected as a result
\* set of one cell. The program's wrapper must differ from it (C12).
StatementResultAsRows(r) ==
    IF r.ok
    THEN Ok(QueryResult(<<ColumnInfo("affected", "BIGINT", TRUE, FALSE)>>,
                        << <<CellValue("Int", Val(r))>> >>, Some(Val(r)), 0))
    ELSE r

\* The result the spawned task makes of execute_statement's (main.rs:335-343).
StatementResult(r) ==
    IF r.ok THEN Ok(QueryResult(<<>>, <<>>, Some(Val(r)), 0)) ELSE r

\* The driver call a task makes on the session connection, under the lock
\* (main.rs:140, 260, 271, 332-344 and 463).
DriverCall(t) ==
    CASE t.kind = "databases" -> "list_databases"
      [] t.kind = "tables" -> "list_tables"
      [] t.kind = "views" -> "list_views"
      [] t.kind = "query" ->
            IF is_select(t.arg) THEN "execute_query" ELSE "execute_statement"

\* What the backend call of a task on the session connection can return
\* (main.rs:140, 260, 271, 332-344 and 463).
CallOutcomes(t) ==
    CASE t.kind = "databases" -> MySqlListDatabases
      [] t.kind = "tables" -> MySqlListTables(t.arg)
      [] t.kind = "views" -> MySqlListViews(t.arg)
      [] t.kind = "query" ->
            IF is_select(t.arg) THEN MySqlExecuteQuery(t.arg)
            ELSE { StatementResult(r) : r \in MySqlExecuteStatement(t.arg) }

\* The backend call returns and the task sends the result; it still holds
\* the lock (the guard is dropped at the end of the block).
Return(id) ==
    /\ id \in DOMAIN tasks
    /\ tasks[id].pc = "calling"
    /\ \E r \in CallOutcomes(tasks[id]) : chans' = Send(chans, id, r)
    /\ tasks' = [tasks EXCEPT ![id].pc = "sent"]
    /\ UNCHANGED <<app, mutex, clicks, drv, tab_bar, block>>

\* Dropping the MutexGuard: the lock passes to the first waiter, if any.
ReleaseLock(m) ==
    IF m.waiters = <<>> THEN [m EXCEPT !.holder = None]
    ELSE [holder |-> Some(Head(m.waiters)), waiters |-> Tail(m.waiters)]

\* A block that would end without dropping its guard when the result it sent
\* was discarded. The program's block must differ from it (C24).
ReleaseUnlessDiscarded(id) ==
    /\ id \in DOMAIN tasks
    /\ tasks[id].pc = "sent"
    /\ mutex' = IF id \in DOMAIN chans THEN ReleaseLock(mutex) ELSE mutex
    /\ tasks' = LET rest == Remove(tasks, id) IN
                IF IsSome(mutex'.holder) /\ mutex'.holder # Some(id)
                THEN [rest EXCEPT ![Unwrap(mutex'.holder)].pc = "calling"]
                ELSE rest
    /\ UNCHANGED <<app, chans, clicks, drv, tab_bar, block>>

\* The task's block ends: the guard is dropped and the task is gone.
Release(id) ==
    /\ id \in DOMAIN tasks
    /\ tasks[id].pc = "sent"
    /\ mutex' = ReleaseLock(mutex)
    /\ tasks' = LET rest == Remove(tasks, id) IN
                IF IsSome(mutex'.holder)
                THEN [rest EXCEPT ![Unwrap(mutex'.holder)].pc = "calling"]
                ELSE rest
    /\ UNCHANGED <<app, chans, clicks, drv, tab_bar, block>>

(***************************************************************************)
(* The specification.                                                      *)
(***************************************************************************)
Init ==
    /\ \E ac \in InitialConfigs : \E conns \in get_connections(ac) :
          app = NewApp(ac, conns)
    /\ tasks = EmptyMap
    /\ chans = EmptyMap
    /\ mutex = [holder |-> None, waiters |-> <<>>]
    /\ clicks = 0
    /\ drv = NoDriver
    /\ tab_bar = NewTabBar
    /\ block = 1

Next ==
    \/ PollSlot
    \/ Draw
    \/ \E id \in Ids : RunConnect(id)
    \/ \E id \in Ids : Lock(id)
    \/ \E id \in Ids : Return(id)
    \/ \E id \in Ids : Release(id)

Spec == Init /\ [][Next]_vars

(***************************************************************************)
(* The driver on its own: one request of the DatabaseConnection trait,     *)
(* drawn at the start, made against a seeded server, with no bridge and no *)
(* caller state. The request can be made again; another session can change *)
(* the schema in between.                                                  *)
(***************************************************************************)
\* No session: the application as constructed, nothing spawned.
NoSession ==
    /\ app = NewApp(EmptyAppConfig, <<>>)
    /\ tasks = EmptyMap
    /\ chans = EmptyMap
    /\ mutex = [holder |-> None, waiters |-> <<>>]
    /\ clicks = 0
    /\ tab_bar = NewTabBar
    /\ block = 1

\* Rows the server answers a query with.
MaxFetched == 2

RustTypes == {"bool", "i64", "f64", "String", "Vec<u8>"}
\* One type name of each arm of row_to_values.
ArmSamples ==
    {"BOOLEAN", "INT", "BIGINT UNSIGNED", "DECIMAL", "DATETIME", "JSON", "BLOB", "TEXT"}
\* The columns of an answer: one of any type, or one of each arm's sample and
\* a second one.
ColumnSets ==
    { <<Column("c1", ty)>> : ty \in TypeNames }
    \cup { <<Column("c1", ty), Column("c2", ty2)>>
           : ty \in ArmSamples, ty2 \in {"INT", "VARCHAR"} }
\* The values a column can hold on the wire: one its arm's Rust type reads,
\* SQL NULL, and one only the other Rust types read.
ValuesOf(col) ==
    { Raw(1, {ReadAs(col.type_name)}), Raw(0, {}),
      Raw(2, RustTypes \ {ReadAs(col.type_name)}) }
ValueRows(columns) ==
    { vs \in [1..Len(columns) -> UNION { ValuesOf(columns[i]) : i \in 1..Len(columns) }] :
        \A i \in 1..Len(columns) : vs[i] \in ValuesOf(columns[i]) }
ResultSets ==
    { <<>> } \cup
    UNION { UNION { { [k \in 1..n |-> MySqlRow(columns, grid[k])]
                      : grid \in [1..n -> ValueRows(columns)] }
                    : n \in 1..MaxFetched }
            : columns \in ColumnSets }

Names == { NameOrder[i] : i \in 1..Len(NameOrder) }
\* The names a caller asks with: those of the catalog, a database name and a
\* table name that hold single quotes, and a table name with one.
QuotedDatabase == "d' OR '1'='1"
QuotedTable == "u' OR TABLE_NAME = 't"
OpenTable == "t'"
AskedDatabases == Schemas \cup {QuotedDatabase}
AskedTables == Names \cup {QuotedTable, OpenTable}

\* The requests on the catalog a behaviour can start with.
Requests ==
    { Call(op, Args(d, "", 0, 0, 0), <<>>, None)
      : op \in {"list_tables", "list_views"}, d \in AskedDatabases }
    \cup { Call("describe_table", Args(d, t, 0, 0, 0), <<>>, None)
           : d \in AskedDatabases, t \in AskedTables }
    \cup { Call("get_table_data", Args(d, t, 0, limit, offset), <<>>, None)
           : d \in Schemas, t \in Names, limit \in 0..MaxLimit, offset \in 0..MaxLimit }
    \cup { Call("get_table_data", Args(d, t, 0, 1, 0), <<>>, None)
           : d \in AskedDatabases, t \in AskedTables }
    \cup { Call("execute_statement", Args(d, t, id, 0, 0), <<>>, None)
           : d \in Schemas, t \in Names, id \in 1..2 }
\* A query, with the rows the server answers it with.
Queries == { Call("execute_query", NoArgs, rows, None) : rows \in ResultSets }

\* The rows SHOW DATABASES can answer with: names in any order, some of them
\* not readable as a String.
NameRows ==
    UNION { [1..n -> { <<Raw(name, reads)>> : name \in {"a", "b"}, reads \in {{"String"}, {}} }]
            : n \in 0..(MaxFetched + 1) }
\* The texts the editor's Execute is applied to: with and without leading
\* whitespace (the last is a vertical tab, U+000B), the four keywords in
\* several spellings, words that begin with one, and other statements. The
\* texts of the requests are written in ASCII.
Texts ==
    { Sql(ws, head, tail)
      : ws \in {"", " ", "\n\t ", "\f", ""},
        head \in {"SELECT", "select", "Select", "show", "DESCRIBE", "Explain", "SELECTED",
                  "showcase", "sel", "(select", "DELETE", "insert", "desc", ""},
        tail \in {"", " 1 "} }
\* A run of the editor's text on the session connection (main.rs:325-344).
Runs == { Call("run_query", [sql |-> x], <<>>, None) : x \in Texts }

\* The requests that need no catalog: connect (to a configured database or
\* none), the probe, close, and list_databases with the rows it is answered.
Others ==
    { Call("connect", Args(d, "", 0, 0, 0), <<>>, None) : d \in {"", "d"} }
    \cup { Call(op, NoArgs, <<>>, None) : op \in {"test_connection", "close"} }
    \cup { Call("list_databases", NoArgs, rows, None) : rows \in NameRows }

\* The seeded servers: table d.t holds any number of rows up to MaxRows; on
\* one of them database d also has a table of one row whose name holds a
\* backquote.
Catalogs ==
    { [Seeded EXCEPT ![Key("d", "t")].rows = SeedRows(n)] : n \in 0..MaxRows }
    \cup { Insert(Seeded, Key("d", BackquotedName),
                  Object("BASE TABLE", <<IdColumn, QtyColumn>>, SeedRows(1))) }

\* The describe_table result before the one now returned, if no DDL came
\* between the two.
Seen == IF drv.call.op = "describe_table" /\ IsSome(drv.call.res)
        THEN Some(drv.call) ELSE drv.seen

\* The request returns res and leaves the catalog alone.
Returns(res) ==
    /\ drv' = [b |-> drv.b, call |-> [drv.call EXCEPT !.res = Some(res)], seen |-> Seen]
    /\ UNCHANGED <<app, tasks, chans, mutex, clicks, tab_bar, block>>

ListTables ==
    /\ drv.call.op = "list_tables"
    /\ \E r \in mysql_list_tables(drv.b, drv.call.args.database) : Returns(r)

ListViews ==
    /\ drv.call.op = "list_views"
    /\ \E r \in mysql_list_views(drv.b, drv.call.args.database) : Returns(r)

DescribeTable ==
    /\ drv.call.op = "describe_table"
    /\ \E r \in mysql_describe_table(drv.b, drv.call.args.database, drv.call.args.table) :
          Returns(r)

GetTableData ==
    /\ drv.call.op = "get_table_data"
    /\ LET a == drv.call.args IN
       \E r \in mysql_get_table_data(drv.b, a.database, a.table, a.limit, a.offset) :
           Returns(r)

ExecuteQuery ==
    /\ drv.call.op = "execute_query"
    /\ \E f \in FetchAll(drv.call.fetched), t \in ExecTimes :
          Returns(mysql_execute_query(f, t))

Connect ==
    /\ drv.call.op = "connect"
    /\ \E o \in MySqlConnect(Config("c", "MySQL", drv.call.args.database)) : Returns(o.res)

TestConnection ==
    /\ drv.call.op = "test_connection"
    /\ \E r \in MySqlTestConnection : Returns(r)

ListDatabases ==
    /\ drv.call.op = "list_databases"
    /\ \E f \in FetchAll(drv.call.fetched) : Returns(mysql_list_databases(f))

\* The block of execute_query (main.rs:332-344) on the text of the request.
RunQuery ==
    /\ drv.call.op = "run_query"
    /\ \E r \in CallOutcomes(Task("query", drv.call.args.sql)) : Returns(r)

Close ==
    /\ drv.call.op = "close"
    /\ \E r \in MySqlClose : Returns(r)

\* The statement branch of the query task (main.rs:334-343) on a DELETE.
RunStatement ==
    /\ drv.call.op = "execute_statement"
    /\ LET a == drv.call.args IN
       \E x \in mysql_execute_statement(drv.b, Delete(a.database, a.table, a.id)) :
           drv' = [b |-> x.b,
                   call |-> [drv.call EXCEPT !.res = Some(StatementResult(x.res))],
                   seen |-> Seen]
    /\ UNCHANGED <<app, tasks, chans, mutex, clicks, tab_bar, block>>

\* Another session changes the schema; what the request returned before is
\* out of date.
SchemaChange ==
    /\ drv.b # EmptyCatalog
    /\ \E b2 \in SchemaChanges(drv.b) :
          drv' = [b |-> b2, call |-> [drv.call EXCEPT !.res = None], seen |-> None]
    /\ UNCHANGED <<app, tasks, chans, mutex, clicks, tab_bar, block>>

DriverInit ==
    /\ NoSession
    /\ \/ \E b \in Catalogs, call \in Requests :
             drv = [b |-> b, call |-> call, seen |-> None]
       \/ \E call \in Queries \cup Others \cup Runs :
             drv = [b |-> EmptyCatalog, call |-> call, seen |-> None]

DriverNext ==
    \/ Connect
    \/ RunQuery
    \/ TestConnection
    \/ ListDatabases
    \/ Close
    \/ ListTables
    \/ ListViews
    \/ DescribeTable
    \/ GetTableData
    \/ ExecuteQuery
    \/ RunStatement
    \/ SchemaChange

DriverSpec == DriverInit /\ [][DriverNext]_vars

(***************************************************************************)
(* A session that is already open: the state the program is in after New   *)
(* Connection, Connect, the delivery of the connection and the delivery of *)
(* the listing of the databases a and b. The clicks are counted from here. *)
(***************************************************************************)
\* The widget events handled in an open session.
SessionClicks == 2

Opened ==
    LET s0 == [app |-> NewApp(EmptyAppConfig, <<>>), tasks |-> EmptyMap,
               chans |-> EmptyMap, delivered |-> <<>>]
        s1 == Handle(s0, Event("new_connection", "", "", 0))
        s2 == Handle(s1, Event("connect", "", "", 0))
        c  == Unwrap(s2.app.pending_connection).rx
        s3 == [s2 EXCEPT !.chans = Send(@, c, Ok(MySqlConnection(s2.tasks[c].arg))),
                         !.tasks = Remove(@, c)]
        s4 == PollConnection(s3)
        d  == Unwrap(s4.app.pending_databases).rx
        s5 == [s4 EXCEPT !.chans = Send(@, d, Ok(<<DatabaseInfo("a"), DatabaseInfo("b")>>)),
                         !.tasks = Remove(@, d)]
    IN  PollDatabases(s5)

SessionInit ==
    /\ app = Opened.app
    /\ tasks = Opened.tasks
    /\ chans = Opened.chans
    /\ mutex = [holder |-> None, waiters |-> <<>>]
    /\ clicks = MaxClicks - SessionClicks
    /\ drv = NoDriver
    /\ tab_bar = NewTabBar
    /\ block = 1

\* The open session as a state of Spec (which reaches it with two clicks).
SessionOpened ==
    /\ app = Opened.app /\ tasks = Opened.tasks /\ chans = Opened.chans
    /\ mutex = [holder |-> None, waiters |-> <<>>]

SessionNext ==
    \/ PollSlot
    \/ Draw
    \/ \E id \in Ids : Lock(id)
    \/ \E id \in Ids : Return(id)
    \/ \E id \in Ids : Release(id)

SessionSpec == SessionInit /\ [][SessionNext]_vars

\* The open session on a backend none of whose calls fails.
ReturnOk(id) ==
    /\ id \in DOMAIN tasks
    /\ tasks[id].pc = "calling"
    /\ \E r \in { x \in CallOutcomes(tasks[id]) : x.ok } : chans' = Send(chans, id, r)
    /\ tasks' = [tasks EXCEPT ![id].pc = "sent"]
    /\ UNCHANGED <<app, mutex, clicks, drv, tab_bar, block>>

UnfailingNext ==
    \/ PollSlot
    \/ Draw
    \/ \E id \in Ids : Lock(id)
    \/ \E id \in Ids : ReturnOk(id)
    \/ \E id \in Ids : Release(id)

UnfailingSpec == SessionInit /\ [][UnfailingNext]_vars

(***************************************************************************)
(* A tab bar on its own: tabs are added and closed in any order.           *)
(***************************************************************************)
TabIds(bar) == { bar.tabs[i].id : i \in 1..Len(bar.tabs) }

\* add_tab: Uuid::new_v4 returns an identifier no tab of the bar carries.
AddTab ==
    /\ Len(tab_bar.tabs) < MaxTabs
    /\ \E title \in Titles, id \in Uuids \ TabIds(tab_bar) :
          tab_bar' = add_tab(tab_bar, NewTab(title, id)).bar
    /\ UNCHANGED <<app, tasks, chans, mutex, clicks, drv, block>>

\* close_tab of any identifier, of a tab of the bar or not.
CloseTab ==
    /\ \E id \in Uuids : tab_bar' = close_tab(tab_bar, id)
    /\ UNCHANGED <<app, tasks, chans, mutex, clicks, drv, block>>

TabInit == NoSession /\ drv = NoDriver

TabNext == AddTab \/ CloseTab

TabSpec == TabInit /\ [][TabNext]_vars

(***************************************************************************)
(* Vocabulary of the properties.                                           *)
(***************************************************************************)
\* The caller is inside poll_async_tasks, about to poll slot SlotOrder[block].
InPoll == block \in 1..Len(SlotOrder)
Polling(slot) == InPoll /\ SlotOrder[block] = slot

\* The state the block the caller runs next leaves when it runs now (the
\* widgets: the state they are drawn from).
Polled == IF InPoll THEN poll_async_tasks(Now, block) ELSE Now

\* The slot of the caller state a_ holds the Receiver of channel id.
Holds(a_, slot, id) == IsSome(a_[slot]) /\ Unwrap(a_[slot]).rx = id
SlotsOf(a_, id) == { slot \in Slots : Holds(a_, slot, id) }
SlotOf(kind) == CHOOSE slot \in Slots : KindOf(slot) = kind

\* Channel id is gone from cs, or its id names the fresh channel of a later
\* start (the runtime reuses the identity of a freed channel).
Gone(cs, id) == id \notin DOMAIN cs \/ cs[id] = NewChannel

\* The channels whose value the poll p applied to caller state.
DeliveredIds(p) == { p.delivered[i].id : i \in 1..Len(p.delivered) }
Deliveries(p, id) == { i \in 1..Len(p.delivered) : p.delivered[i].id = id }

\* A step of the caller (a task's step leaves the caller where it is).
FrameStep == block' # block

\* The tasks of the session connection that are inside their backend call,
\* and those that hold the lock (inside the call or about to drop the guard).
InCall == { id \in DOMAIN tasks : tasks[id].pc = "calling" }
Holding == { id \in DOMAIN tasks : tasks[id].pc \in {"calling", "sent"} }

\* A running task whose Receiver was dropped by a newer start of its kind.
Abandoned(id) == id \in DOMAIN tasks /\ id \in DOMAIN chans /\ ~chans[id].rx

(***************************************************************************)
(* C1                                                                      *)
(***************************************************************************)
\* C1: a block of the poll delivers its slot's result at most once, only from
\* the operation the slot is bound to; the delivery takes the value out of
\* the channel and empties the slot in that same block, so the block run
\* again with no new start in between delivers nothing, an empty slot
\* delivers nothing, and no result is applied twice.
C1_ExactlyOnce ==
    LET p == Polled IN
    /\ Len(p.delivered) <= 1
    /\ \A i \in 1..Len(p.delivered) :
          LET d == p.delivered[i] IN
          /\ Polling(d.slot)
          /\ Holds(app, d.slot, d.id)
          /\ chans[d.id].val = Some(d.res)
          /\ p.app[d.slot] = None
          /\ Gone(p.chans, d.id)
    /\ InPoll => poll_async_tasks([p EXCEPT !.delivered = <<>>], block).delivered = <<>>
    /\ \A slot \in Slots : Polling(slot) /\ app[slot] = None => p.delivered = <<>>

\* A list-databases result has been delivered and its slot is empty again.
C1_Witness == app.databases # <<>> /\ app.pending_databases = None

(***************************************************************************)
(* C2                                                                      *)
(***************************************************************************)
OutstandingAfter(slot, id) ==
    /\ ~(FrameStep /\ id \in DeliveredIds(Polled))
    /\ app'[slot] = app[slot]
    /\ id \in DOMAIN chans' /\ chans'[id].rx

ObservedOnce(slot, id) ==
    /\ FrameStep
    /\ Cardinality(Deliveries(Polled, id)) = 1
    /\ \A i \in Deliveries(Polled, id) : Polled.delivered[i].slot = slot

SupersededBy(slot, id) ==
    /\ FrameStep
    /\ id \notin DeliveredIds(Polled)
    /\ IsSome(app'[slot]) /\ app'[slot] # app[slot]

\* C2 as stated: every start that is not yet observed stays observable: in
\* each step its completion is delivered by the frame's poll, exactly once, or
\* its Receiver is still in its slot afterwards. (A start superseded by a newer
\* start of its kind refutes it.)
C2_EveryStartObserved ==
    [][ \A id \in DOMAIN chans : chans[id].rx =>
            \E slot \in Slots :
                /\ Holds(app, slot, id)
                /\ ObservedOnce(slot, id) \/ OutstandingAfter(slot, id) ]_vars

\* C2, amended: a start is observed exactly once unless a newer start of
\* the same kind replaces its slot first; in each step its completion is
\* delivered once by the frame's poll, or stays outstanding in its slot, or the
\* slot has been taken by a newer start (and the older one is never observed).
C2_ObservedUnlessSuperseded ==
    [][ \A id \in DOMAIN chans : chans[id].rx =>
            \E slot \in Slots :
                /\ Holds(app, slot, id)
                /\ \/ ObservedOnce(slot, id)
                   \/ OutstandingAfter(slot, id)
                   \/ SupersededBy(slot, id) ]_vars

\* A running task whose start has been superseded: nobody holds its Receiver.
C2_Witness == \E id \in DOMAIN tasks : Abandoned(id) /\ SlotsOf(app, id) = {}

(***************************************************************************)
(* C3                                                                      *)
(***************************************************************************)
C3_Exclusive ==
    /\ Cardinality(Holding) <= 1
    /\ \A id \in Holding : mutex.holder = Some(id)
    /\ IsSome(mutex.holder) => Unwrap(mutex.holder) \in Holding
    /\ \A id \in DOMAIN tasks :
          tasks[id].pc = "waiting" <=> \E i \in 1..Len(mutex.waiters) : mutex.waiters[i] = id

C3_CallBeginsAfterRelease ==
    \A id \in DOMAIN tasks' :
        (tasks'[id].pc = "calling" /\ (id \notin DOMAIN tasks \/ tasks[id].pc # "calling")) =>
            /\ InCall = {}
            /\ \/ mutex.holder = None
               \/ /\ Unwrap(mutex.holder) \notin DOMAIN tasks'
                  /\ tasks[Unwrap(mutex.holder)].pc = "sent"

\* C3: of the tasks spawned against the session connection at most one is
\* inside its backend call, and it is the holder of the lock; a task enters
\* its call only in a step before which nobody was in a call and the lock was
\* free or is released by the previous holder, whose call has returned.
C3_MutualExclusion == []C3_Exclusive /\ [][C3_CallBeginsAfterRelease]_vars

\* One task is inside its call while another waits for the lock.
C3_Witness == InCall # {} /\ mutex.waiters # <<>>

(***************************************************************************)

(***************************************************************************)
(* C4                                                                      *)
(***************************************************************************)
\* What delivering result res of a slot leaves in the caller state p_ the
\* poll ends with.
Applied(p_, slot, res) ==
    CASE slot = "pending_connection" ->
            IF res.ok THEN p_.app.connection = Some(Val(res)) /\ p_.app.view_state = "Connected"
            ELSE p_.app.connection_state = "Error"
      [] slot = "pending_test" -> p_.app.form_test_result = Some(res)
      [] slot = "pending_databases" ->
            res.ok => p_.app.databases = FilterDatabases(p_.app, Val(res))
      [] slot = "pending_tables" ->
            res.ok => p_.app.tables[Unwrap(app.pending_tables).db] = Val(res)
      [] slot = "pending_views" ->
            res.ok => p_.app.views[Unwrap(app.pending_views).db] = Val(res)
      [] slot = "pending_query" ->
            IF res.ok
            THEN p_.app.query_result = Some(Val(res)) /\ p_.app.result_error = None
            ELSE p_.app.query_result = None /\ p_.app.result_error = Some(res.e)

\* The block of the slot runs now and delivers the value the slot holds.
DeliveredByPoll(slot) ==
    LET id == Unwrap(app[slot]).rx IN
    /\ Polling(slot)
    /\ Polled.delivered = <<[slot |-> slot, id |-> id, res |-> Value(Now, slot)]>>
    /\ Applied(Polled, slot, Value(Now, slot))
    /\ Polled.app[slot] = None

\* The step leaves the slot's Receiver and the value sent to it in place.
StillReady(slot) ==
    /\ ~(FrameStep /\ Polling(slot))
    /\ app'[slot] = app[slot]
    /\ chans'[Unwrap(app[slot]).rx] = chans[Unwrap(app[slot]).rx]

\* The step is a block or a handler of the caller that starts the slot's
\* operation again: the Receiver of the value sent is dropped.
Restarted(slot) ==
    /\ FrameStep /\ ~Polling(slot)
    /\ IsSome(app'[slot]) /\ app'[slot] # app[slot]
    /\ Gone(chans', Unwrap(app[slot]).rx)

\* C4 as stated: once a slot's task has sent its result, the value stays in
\* the slot until the poll of that slot, which delivers it, applies it to
\* caller state and empties the slot. (A start of the same kind made before
\* that poll refutes it: the value is dropped undelivered.)
C4_NextPollDelivers ==
    [][ \A slot \in Slots : Ready(Now, slot) =>
            \/ FrameStep /\ DeliveredByPoll(slot)
            \/ StillReady(slot) ]_vars

\* C4, amended: the next poll of the slot delivers the value, applies it
\* and empties the slot, unless a newer start of the same kind (made by the
\* list-databases block of the poll or by a widget's handler) has taken the
\* slot before: then the value sent is dropped undelivered.
C4_NextPollDeliversUnlessRestarted ==
    [][ \A slot \in Slots : Ready(Now, slot) =>
            \/ FrameStep /\ DeliveredByPoll(slot)
            \/ StillReady(slot)
            \/ Restarted(slot) ]_vars

\* The tables and the views results are both waiting at the poll of the
\* tables slot, which delivers its own.
C4_Witness ==
    /\ Ready(Now, "pending_tables") /\ Ready(Now, "pending_views")
    /\ DeliveredByPoll("pending_tables")

(***************************************************************************)
(* C5                                                                      *)
(***************************************************************************)
\* C5: polling a slot whose task has not sent its result changes nothing:
\* the slot keeps its Receiver and the caller state, the channels and the
\* tasks are as before.
C5_PendingPollIsNoOp ==
    InPoll /\ ~Ready(Now, SlotOrder[block]) => Polled = Now

\* The caller polls a slot whose task is inside its backend call.
C5_Witness ==
    /\ InPoll /\ IsSome(app[SlotOrder[block]])
    /\ ~Ready(Now, SlotOrder[block])
    /\ Unwrap(app[SlotOrder[block]]).rx \in InCall

(***************************************************************************)
(* C6                                                                      *)
(***************************************************************************)
\* The slots the handler of event ev binds to a new task (main.rs:250-349
\* and main.rs:457-467).
StartedSlots(p_, ev) ==
    CASE ev.name = "connect" -> {"pending_connection"}
      [] ev.name = "test" -> {"pending_test"}
      [] ev.name = "refresh" -> {"pending_databases"}
      [] ev.name \in {"execute", "load_data"} -> {"pending_query"}
      [] ev.name = "expand" ->
            IF ev.db \in DOMAIN p_.app.tables THEN {} ELSE {"pending_tables", "pending_views"}
      [] OTHER -> {}

\* The slot is bound to a task that was spawned in the step from p_ to s and
\* has not run yet.
JustStarted(p_, s, slot) ==
    /\ IsSome(s.app[slot])
    /\ LET id == Unwrap(s.app[slot]).rx IN
       /\ id \notin DOMAIN p_.tasks
       /\ id \in DOMAIN s.tasks
       /\ s.tasks[id].kind = KindOf(slot) /\ s.tasks[id].pc = "spawned"
       /\ s.chans[id] = NewChannel

\* C6: in every reachable state, whoever holds the connection lock and
\* whatever the tasks are doing, the caller's next block can run: the poll of
\* a slot is defined and the start it makes on a delivered connection
\* completes within the block; the widgets can be drawn, and each start a
\* handler makes completes within the block, leaving the slot bound to a task
\* that has not run yet and every other task as it was.
C6_NeverBlocks ==
    LET p == Now IN
    /\ InPoll => /\ Polled.app \in {Polled.app}
                 /\ \A id \in DOMAIN tasks : Polled.tasks[id] = tasks[id]
    /\ (Polling("pending_connection") /\ Ready(p, "pending_connection")
            /\ Value(p, "pending_connection").ok)
          => JustStarted(p, Polled, "pending_databases")
    /\ block = Widgets =>
          /\ NoEvent \in Events(p) /\ Room(p, NoEvent)
          /\ \A ev \in Events(p) : Room(p, ev) =>
                LET s == Handle(p, ev) IN
                /\ \A slot \in StartedSlots(p, ev) : JustStarted(p, s, slot)
                /\ \A id \in DOMAIN p.tasks : s.tasks[id] = p.tasks[id]

\* A query has been started and has not run yet, while another task holds
\* the lock and a third waits for it.
C6_Witness ==
    /\ IsSome(mutex.holder) /\ mutex.waiters # <<>>
    /\ \E id \in DOMAIN tasks :
          /\ tasks[id].kind = "query" /\ tasks[id].pc = "spawned"
          /\ Holds(app, "pending_query", id)

(***************************************************************************)
(* C7                                                                      *)
(***************************************************************************)
C7_StillRuns ==
    \A id \in DOMAIN tasks : Abandoned(id) =>
        /\ SlotsOf(app, id) = {} /\ id \notin DeliveredIds(Polled)
        /\ (tasks[id].pc = "spawned" /\ tasks[id].kind \in LockKinds) => ENABLED Lock(id)
        /\ tasks[id].kind \notin LockKinds => ENABLED RunConnect(id)
        /\ tasks[id].pc = "calling" => ENABLED Return(id)
        /\ tasks[id].pc = "sent" => ENABLED Release(id)

C7_ResultDiscarded ==
    \A id \in DOMAIN tasks :
        (/\ Abandoned(id)
         /\ \/ id \notin DOMAIN tasks'
            \/ tasks'[id].pc = "sent") =>
            /\ app' = app
            /\ chans' = Remove(chans, id)

\* C7: a task whose Receiver was dropped by a newer start is not stopped: it
\* can take each of its steps (the lock, the backend call, the send, the
\* release); no slot holds its channel and no poll delivers from it, and when
\* it sends, its value is dropped with the channel: the caller state and
\* every other channel are unchanged.
C7_AbandonedRunsOn == []C7_StillRuns /\ [][C7_ResultDiscarded]_vars

\* An abandoned task of the session connection has sent its result and is
\* about to release the lock it took.
C7_Witness ==
    \E id \in DOMAIN tasks :
        /\ tasks[id].pc = "sent" /\ mutex.holder = Some(id)
        /\ id \notin DOMAIN chans
        /\ SlotsOf(app, id) = {}
        /\ IsSome(app[SlotOf(tasks[id].kind)])
        /\ Unwrap(app[SlotOf(tasks[id].kind)]).rx \in DOMAIN tasks

(***************************************************************************)
(* C8                                                                      *)
(***************************************************************************)
C8_OneSlotPerKind ==
    /\ \A slot \in Slots : IsSome(app[slot]) =>
          LET id == Unwrap(app[slot]).rx IN
          /\ id \in DOMAIN chans /\ chans[id].rx
          /\ id \in DOMAIN tasks => tasks[id].kind = KindOf(slot)
    /\ \A id \in DOMAIN chans : chans[id].rx => Cardinality(SlotsOf(app, id)) = 1
    /\ \A id \in DOMAIN chans : ~chans[id].rx =>
          /\ id \in DOMAIN tasks
          /\ chans[id].val = None
          /\ SlotsOf(app, id) = {}
          /\ id \notin DeliveredIds(Polled)
    /\ \A k \in {KindOf(slot) : slot \in Slots} :
          Cardinality({ id \in DOMAIN tasks \cap DOMAIN chans :
                          tasks[id].kind = k /\ chans[id].rx }) <= 1

\* The tasks of kind k the step starts.
StartedNow(k) == { id \in DOMAIN tasks' : id \notin DOMAIN tasks /\ tasks'[id].kind = k }

C8_NewestHoldsSlot ==
    \A k \in {KindOf(slot) : slot \in Slots} :
        StartedNow(k) # {} =>
            /\ \E id \in StartedNow(k) : Holds(app', SlotOf(k), id)
            /\ \A id \in DOMAIN tasks \cap DOMAIN tasks' :
                  tasks[id].kind = k => (id \notin DOMAIN chans' \/ ~chans'[id].rx)

\* C8: each kind has one slot, and a live Receiver is always the one its
\* kind's slot holds, so of the running tasks of a kind at most one can
\* deliver; a step that starts an operation of a kind leaves the slot with a
\* task started in that step and every older task of the kind without Receiver.
C8_AtMostOneOutstanding == []C8_OneSlotPerKind /\ [][C8_NewestHoldsSlot]_vars

\* Two tasks of one kind are running: the slot holds the Receiver of one,
\* the Receiver of the other has been dropped.
C8_Witness ==
    \E i, j \in DOMAIN tasks :
        /\ i # j /\ tasks[i].kind = tasks[j].kind
        /\ Holds(app, SlotOf(tasks[i].kind), i)
        /\ Abandoned(j)

(***************************************************************************)
(* C9                                                                      *)
(***************************************************************************)
\* The cache after a listing for key db has been written into cache.
Written(cache, db, listing) ==
    [k \in (DOMAIN cache) \cup {db} |-> IF k = db THEN listing ELSE cache[k]]

AllOf(listing, db) == \A i \in 1..Len(listing) : listing[i].database = db

\* C9: the poll of the tables (views) slot writes a successful listing under
\* the key the load was started for and nowhere else: every other entry of the
\* cache, and the other cache, stay as they were, and the entry of the key is
\* the new listing, whatever it held before; a failed listing changes neither
\* cache. Every cached entry lists objects of the database it is keyed by.
C9_KeyedLastWriteWins ==
    /\ \A slot \in {"pending_tables", "pending_views"} :
          LET b == Now
              a == Polled
              mine == IF slot = "pending_tables" THEN "tables" ELSE "views"
              other == IF slot = "pending_tables" THEN "views" ELSE "tables"
          IN  Polling(slot) /\ Ready(b, slot) =>
                 LET r == Value(b, slot)
                     db == Unwrap(b.app[slot]).db
                 IN  /\ a.app[other] = b.app[other]
                     /\ a.app[mine] = IF r.ok THEN Written(b.app[mine], db, Val(r))
                                      ELSE b.app[mine]
                     /\ r.ok => AllOf(Val(r), db)
    /\ \A db \in DOMAIN app.tables : AllOf(app.tables[db], db)
    /\ \A db \in DOMAIN app.views : AllOf(app.views[db], db)
    /\ \A id \in DOMAIN tasks : \A slot \in {"pending_tables", "pending_views"} :
          Holds(app, slot, id) => Unwrap(app[slot]).db = tasks[id].arg

\* A views listing for one database is about to be delivered while the
\* cache holds a non-empty listing for another database.
C9_Witness ==
    /\ Polling("pending_views")
    /\ Ready(Now, "pending_views")
    /\ Value(Now, "pending_views").ok
    /\ \E other \in DOMAIN app.views :
          other # Unwrap(app.pending_views).db /\ app.views[other] # <<>>

(***************************************************************************)
(* C10                                                                     *)
(***************************************************************************)
\* C10: for a configuration whose backend is PostgreSQL, SQLite or MongoDB
\* the factory has one outcome, Err(UnsupportedType) reached with no
\* connection attempt, and so has every connect or test task started with
\* such a configuration; for MySQL every outcome has made one attempt.
C10_UnsupportedWithoutAttempt ==
    /\ \A t \in DatabaseType : \A d \in {"", "a"} :
          LET made == create_connection(Config("c", t, d)) IN
          IF t = "MySQL"
          THEN made # {} /\ \A o \in made : o.attempts = 1
          ELSE made = { Outcome(Err("Unsupported database type: " \o t \o " support coming soon"), 0) }
    /\ \A id \in DOMAIN tasks : tasks[id].kind \in {"connect", "test"} =>
          \A o \in BodyOutcomes(tasks[id].kind, tasks[id].arg) :
              IF tasks[id].arg.db_type = "MySQL"
              THEN o.attempts = 1
              ELSE /\ o.attempts = 0
                   /\ o.res = Err("Unsupported database type: " \o tasks[id].arg.db_type
                                  \o " support coming soon")
                   /\ tasks[id].pc = "spawned"

\* A connect with the stored SQLite configuration has failed with the
\* factory's error.
C10_Witness ==
    /\ app.connection_state = "Error"
    /\ app.form_test_result =
          Some(Err("Unsupported database type: SQLite support coming soon"))


(***************************************************************************)
(* C11                                                                     *)
(***************************************************************************)
\* The display strings of DatabaseError the model's backend can produce
\* (db/mod.rs:11-26, through to_string at main.rs:291, 309 and 332-344).
DisplayStrings ==
    { ConnectionFailed(TransportError), QueryFailed(TransportError) }
    \cup { o.res.e : o \in { o \in UNION { create_connection(Config("c", ty, ""))
                                            : ty \in DatabaseType } : ~o.res.ok } }

\* What the block of the slot did with the failure e (b before, a after).
FailureApplied(slot, e, b, a) ==
    CASE slot = "pending_connection" ->
            /\ a.app.connection_state = "Error"
            /\ a.app.form_test_result = Some(Err(e))
            /\ a.app.connection = b.app.connection
      [] slot = "pending_test" ->
            a.app.form_test_result = Some(Err(e)) /\ ~a.app.form_testing
      [] slot = "pending_query" ->
            a.app.result_error = Some(e) /\ a.app.query_result = None
                /\ ~a.app.query_executing
      [] OTHER ->
            /\ a.app.databases = b.app.databases
            /\ a.app.tables = b.app.tables
            /\ a.app.views = b.app.views

\* A failure that is ready in the slot the caller is about to poll: what the
\* block does with it.
C11_FailedIsFinal ==
    \A slot \in Slots :
        Polling(slot) /\ Ready(Now, slot) /\ ~Value(Now, slot).ok =>
            LET e == Value(Now, slot).e
                id == Unwrap(app[slot]).rx
            IN  /\ e \in DisplayStrings
                /\ Polled.delivered = <<[slot |-> slot, id |-> id, res |-> Err(e)]>>
                /\ FailureApplied(slot, e, Now, Polled)
                /\ Polled.app[slot] = None
                /\ Polled.tasks = tasks

\* A step that starts a task is a step of the caller: the widgets of a frame,
\* or the block of a connection or of a database listing that succeeded.
C11_OnlyCallerStarts ==
    ~(DOMAIN tasks' \subseteq DOMAIN tasks) =>
        \/ block = Widgets
        \/ \E slot \in {"pending_connection", "pending_databases"} :
              Polling(slot) /\ Ready(Now, slot) /\ Value(Now, slot).ok

\* A slot that is idle is bound again only by a step that starts a task of
\* its kind.
C11_IdleUntilStarted ==
    \A slot \in Slots :
        app[slot] = None /\ app'[slot] # None =>
            /\ Unwrap(app'[slot]).rx \in DOMAIN tasks' \ DOMAIN tasks
            /\ tasks'[Unwrap(app'[slot]).rx].kind = KindOf(slot)

\* The channels that hold the failure of their operation.
Failed == { id \in DOMAIN chans : IsSome(chans[id].val) /\ ~Unwrap(chans[id].val).ok }
\* The frame's poll delivers the failure of channel id, once, from the slot.
FailureDelivered(slot, id) ==
    /\ ObservedOnce(slot, id)
    /\ \A i \in Deliveries(Polled, id) : Polled.delivered[i].res = Unwrap(chans[id].val)

\* A failure stays with the caller until a poll delivers it: in each step it
\* is delivered by the frame's poll or its Receiver is still in its slot.
C11_FailureKept ==
    \A id \in Failed :
        \E slot \in Slots :
            /\ Holds(app, slot, id)
            /\ FailureDelivered(slot, id) \/ OutstandingAfter(slot, id)

\* The same, unless a newer start of its kind takes the slot first.
C11_FailureKeptUnlessSuperseded ==
    \A id \in Failed :
        \E slot \in Slots :
            /\ Holds(app, slot, id)
            /\ \/ FailureDelivered(slot, id)
               \/ OutstandingAfter(slot, id)
               \/ SupersededBy(slot, id)

\* C11 as stated: every operation that failed is delivered to a poll as a
\* failure that carries the error's display string; the block that receives
\* it empties the slot and starts no task; the slot is bound again only by a
\* new start, and no step other than a step of the caller ever starts a task.
\* (A failure whose slot a newer start of its kind takes before the poll
\* refutes it.)
C11_EveryFailureDelivered ==
    /\ []C11_FailedIsFinal
    /\ [][C11_OnlyCallerStarts /\ C11_IdleUntilStarted /\ C11_FailureKept]_vars

\* C11, amended: an operation that failed is delivered to a poll as a failure
\* that carries the error's display string, unless a newer start of its kind
\* takes its slot before the poll (then it is never delivered); the block
\* that receives it empties the slot and starts no task; the slot is bound
\* again only by a new start, and no step other than a step of the caller
\* ever starts a task.
C11_FailedNeverRetried ==
    /\ []C11_FailedIsFinal
    /\ [][C11_OnlyCallerStarts /\ C11_IdleUntilStarted
              /\ C11_FailureKeptUnlessSuperseded]_vars

\* A failed list-databases result is about to be delivered, after a failed
\* query was: its error is shown and its slot is idle.
C11_Witness ==
    /\ Polling("pending_databases")
    /\ Ready(Now, "pending_databases") /\ ~Value(Now, "pending_databases").ok
    /\ app.result_error = Some(QueryFailed(TransportError))
    /\ app.pending_query = None

(***************************************************************************)
(* C12                                                                     *)
(***************************************************************************)
\* A result with an affected-row count has neither columns nor rows.
CountOrResultSet(q) ==
    IsSome(q.affected_rows) => q.columns = <<>> /\ q.rows = <<>>

\* C12: every QueryResult in caller state, and every one the poll of this
\* frame is about to put there, has no columns and no rows if it carries an
\* affected-row count: it is never a result set and a count at once.
C12_CountOrResultSet ==
    /\ IsSome(app.query_result) => CountOrResultSet(Unwrap(app.query_result))
    /\ IsSome(Polled.app.query_result) => CountOrResultSet(Unwrap(Polled.app.query_result))
    /\ Ready(Now, "pending_query") /\ Value(Now, "pending_query").ok =>
           CountOrResultSet(Val(Value(Now, "pending_query")))

\* The result of a statement that affected one row is in caller state.
C12_Witness ==
    /\ IsSome(app.query_result)
    /\ Unwrap(app.query_result).affected_rows = Some(1)

(***************************************************************************)
(* C13                                                                     *)
(***************************************************************************)

\* The request has returned, with success.
Returned(op) == drv.call.op = op /\ IsSome(drv.call.res)
Succeeded(op) == Returned(op) /\ Unwrap(drv.call.res).ok
\* The payload of the request's successful result.
Result == Val(Unwrap(drv.call.res))

\* C13: a QueryResult of execute_query (called directly or by get_table_data)
\* that has columns has, in every row, exactly one cell per column, and the
\* cell at position i is the one made from the row's value at column i: it is
\* Null or of the variant of column i's type, with that value's payload.
C13_RowsAlignedWithColumns ==
    \A op \in {"execute_query", "get_table_data"} :
        Succeeded(op) /\ Result.columns # <<>> =>
            \A k \in 1..Len(Result.rows) :
                /\ Len(Result.rows[k]) = Len(Result.columns)
                /\ \A i \in 1..Len(Result.columns) :
                      LET cell == Result.rows[k][i] IN
                      /\ cell.tag \in {"Null", VariantOf(Result.columns[i].data_type)}
                      /\ op = "execute_query" =>
                            /\ Result.columns[i].name = drv.call.fetched[k].columns[i].name
                            /\ cell.tag # "Null" => cell.v = drv.call.fetched[k].values[i].v

\* A result of two columns and two rows, one of whose cells could not be read.
C13_Witness ==
    /\ Succeeded("execute_query")
    /\ Len(Result.columns) = 2 /\ Len(Result.rows) = 2
    /\ Result.rows[1][1] = Null /\ Result.rows[1][2] # Null

(***************************************************************************)
(* C14                                                                     *)
(***************************************************************************)
\* The mapping table of the specification (4.2), class by class, on the type
\* names the server reports: the integer types of any width, signed and
\* unsigned; the date and time types, YEAR among them; the binary and blob
\* types; BIT, a bit-value type, and the character types are "anything else".
IntegerWidths == {"TINYINT", "SMALLINT", "MEDIUMINT", "INT", "BIGINT"}
IntegerFamily == IntegerWidths \cup { w \o " UNSIGNED" : w \in IntegerWidths }
DateTimeFamily == {"DATE", "TIME", "DATETIME", "TIMESTAMP", "YEAR"}
BinaryFamily ==
    {"BINARY", "VARBINARY"} \cup { p \o "BLOB" : p \in {"", "TINY", "MEDIUM", "LONG"} }
MappingTable(type_name) ==
    IF type_name \in {"BOOLEAN", "BOOL"} THEN "Bool"
    ELSE IF type_name \in IntegerFamily THEN "Int"
    ELSE IF type_name \in {"FLOAT", "DOUBLE", "DECIMAL"} THEN "Float"
    ELSE IF type_name \in DateTimeFamily THEN "DateTime"
    ELSE IF type_name = "JSON" THEN "Json"
    ELSE IF type_name \in BinaryFamily THEN "Bytes"
    ELSE "String"

\* C14 as stated: the driver's mapping gives every type name the variant tag
\* of the mapping table, and in every result of execute_query each cell of a
\* value that could be read carries the tag the table gives its column's
\* type name, whatever the row, the position or the other columns. (The
\* driver refutes it: no arm of its match lists YEAR, a type of the date and
\* time family, and a YEAR value becomes a String.)
C14_MappingTotalDeterministic ==
    /\ \A name \in TypeNames : VariantOf(name) = MappingTable(name)
    /\ Succeeded("execute_query") =>
          \A k \in 1..Len(Result.rows) : \A i \in 1..Len(Result.columns) :
              LET name == drv.call.fetched[k].columns[i].type_name
                  raw == drv.call.fetched[k].values[i]
              IN  /\ Result.columns[i].data_type = name
                  /\ raw.reads # {} /\ ReadAs(name) \in raw.reads =>
                         Result.rows[k][i].tag = MappingTable(name)
                  /\ Result.rows[k][i].tag \in {"Null", MappingTable(name)}

\* A result with a YEAR column whose value was read: the cell is a String.
C14_Witness ==
    /\ Succeeded("execute_query")
    /\ Len(Result.columns) = 1
    /\ Result.columns[1].data_type = "YEAR"
    /\ Result.rows # <<>> /\ Result.rows[1][1].tag = "String"
    /\ MappingTable("YEAR") = "DateTime"

(***************************************************************************)
(* C15                                                                     *)
(***************************************************************************)
\* The arm of the value's column can read it.
Readable(row, i) == ReadAs(row.columns[i].type_name) \in row.values[i].reads

\* C15: execute_query fails only if the fetch itself failed; when it succeeds
\* it returns one row per fetched row, each of full length, in which a cell
\* whose value could not be read is Null and every other cell is the variant
\* of its column with the value's payload, whatever the other cells are.
C15_UnreadableCellIsNull ==
    Returned("execute_query") =>
        LET res == Unwrap(drv.call.res)
            rows == drv.call.fetched
        IN  /\ ~res.ok => res.e = QueryFailed(TransportError)
            /\ \A t \in ExecTimes : mysql_execute_query(Ok(rows), t).ok
            /\ res.ok =>
                  /\ Len(Val(res).rows) = Len(rows)
                  /\ \A k \in 1..Len(rows) :
                        /\ Len(Val(res).rows[k]) = Len(rows[k].values)
                        /\ \A i \in 1..Len(rows[k].values) :
                              Val(res).rows[k][i] =
                                  IF Readable(rows[k], i)
                                  THEN CellValue(VariantOf(rows[k].columns[i].type_name),
                                                 rows[k].values[i].v)
                                  ELSE Null

\* Two rows of two columns: the first cell of the second row is of a type
\* its arm cannot read, the other three cells were read.
C15_Witness ==
    /\ Succeeded("execute_query")
    /\ Len(Result.rows) = 2 /\ Len(Result.columns) = 2
    /\ drv.call.fetched[2].values[1].reads # {}
    /\ Result.rows[2][1] = Null
    /\ Null \notin {Result.rows[1][1], Result.rows[1][2], Result.rows[2][2]}

(***************************************************************************)
(* C16                                                                     *)
(***************************************************************************)
\* The object the request names is in the catalog.
Exists == Key(drv.call.args.database, drv.call.args.table) \in DOMAIN drv.b

\* C16 as stated: describe_table of a table the database does not have fails
\* with QueryFailed; it never returns success. (The driver refutes it: the
\* introspection query answers with no row and the call returns a TableInfo
\* without columns.)
C16_FailsForMissingTable ==
    Returned("describe_table") /\ ~Exists =>
        /\ ~Unwrap(drv.call.res).ok
        /\ Unwrap(drv.call.res).e \in { QueryFailed(TransportError), QueryFailed(NoSuchTable),
                                        QueryFailed(SyntaxError) }

\* describe_table of a table the database does not have has succeeded, with
\* an empty column sequence.
C16_Witness ==
    /\ Succeeded("describe_table") /\ ~Exists
    /\ Result = DescribedTable(drv.call.args.table, drv.call.args.database, <<>>)

(***************************************************************************)
(* C17                                                                     *)
(***************************************************************************)
\* The columns of the catalog's object the request names, as describe_table
\* reports them, in ordinal order.
Described ==
    LET cols == drv.b[Key(drv.call.args.database, drv.call.args.table)].columns IN
    [i \in 1..Len(cols) |->
        ColumnDetails(cols[i].name, cols[i].column_type, cols[i].is_nullable = "YES",
                      cols[i].column_key = "PRI", contains(cols[i].extra, "auto_increment"))]

\* Two successful describe_table calls with no schema change in between
\* return the same table, column for column in the same order, whatever the
\* order the server reads its rows in; for a table of the catalog these are
\* its columns by ordinal position.
C17_SameColumns ==
    Succeeded("describe_table") =>
        /\ Exists => Result.columns = Described
        /\ IsSome(drv.seen) /\ Unwrap(Unwrap(drv.seen).res).ok =>
              /\ Unwrap(drv.seen).args = drv.call.args
              /\ Val(Unwrap(Unwrap(drv.seen).res)) = Result

\* A step in which describe_table returns changes neither the catalog nor
\* the session.
C17_ReadOnly ==
    drv.call.op = "describe_table" /\ IsSome(drv'.call.res) =>
        /\ drv'.b = drv.b
        /\ UNCHANGED <<app, tasks, chans, mutex, clicks, tab_bar, block>>

(* C18                                                                     *)
(***************************************************************************)
\* The names of the objects of a type the catalog holds in a database.
ObjectsOf(b, database, type) ==
    { n \in Names : Key(database, n) \in DOMAIN b /\ b[Key(database, n)].type = type }

\* C18 as stated: a successful list_tables(d) lists exactly the base tables
\* of d, each once and as an object of d: no view of d, no object of another
\* database; a successful list_views(d) lists exactly the views of d; and on
\* one catalog no name is in both listings. (The driver refutes it: it puts
\* the name it is given between the quotes of the statement as it is, and a
\* name with a quote of its own changes the condition the server reads.)
C18_TablesAndViewsApart ==
    /\ Succeeded("list_tables") =>
          /\ NamesIn(Result) = ObjectsOf(drv.b, drv.call.args.database, "BASE TABLE")
          /\ Len(Result) = Cardinality(NamesIn(Result))
          /\ \A i \in 1..Len(Result) : Result[i].database = drv.call.args.database
    /\ Succeeded("list_views") =>
          /\ NamesIn(Result) = ObjectsOf(drv.b, drv.call.args.database, "VIEW")
          /\ Len(Result) = Cardinality(NamesIn(Result))
          /\ \A i \in 1..Len(Result) : Result[i].database = drv.call.args.database
    /\ Succeeded("list_tables") =>
          \A vs \in mysql_list_views(drv.b, drv.call.args.database) :
              vs.ok => NamesIn(Result) \cap NamesIn(Val(vs)) = {}

\* list_tables of a name that closes the quote and adds OR '1'='1' has
\* returned, as tables of that name, table t of d, view v of d and table t of
\* e.
C18_Witness ==
    /\ Succeeded("list_tables") /\ drv.call.args.database = QuotedDatabase
    /\ ObjectsOf(drv.b, QuotedDatabase, "BASE TABLE") = {}
    /\ Result = <<TableInfo("t", QuotedDatabase), TableInfo("v", QuotedDatabase),
                  TableInfo("t", QuotedDatabase)>>

(***************************************************************************)
(* C19                                                                     *)
(***************************************************************************)
Min(x, y) == IF x <= y THEN x ELSE y
Max(x, y) == IF x >= y THEN x ELSE y
\* The rows the table the request names holds.
Stored == drv.b[Key(drv.call.args.database, drv.call.args.table)].rows
\* The positions of its columns that are not INVISIBLE.
StoredShown ==
    Shown(drv.b[Key(drv.call.args.database, drv.call.args.table)].columns)

\* C19 as stated: a successful get_table_data(db, table, limit, offset) on a
\* table of n rows returns min(limit, max(0, n - offset)) rows, for every
\* limit and offset as given (zero and beyond the table's size included): the
\* rows offset+1, offset+2, ... of the table, never more than limit, never
\* more than the table has left. (The driver refutes it: it puts the table's
\* name between the backquotes of the statement as it is, and a name with a
\* backquote of its own ends the name there; what follows it, LIMIT and
\* OFFSET included, can be made a comment.)
C19_WindowOfRows ==
    Succeeded("get_table_data") /\ Exists =>
        LET n == Len(Stored)
            limit == drv.call.args.limit
            offset == drv.call.args.offset
        IN  /\ Len(Result.rows) = Min(limit, Max(0, n - offset))
            /\ Len(Result.rows) <= limit
            /\ \A k \in 1..Len(Result.rows) :
                  \A i \in 1..Len(Result.rows[k]) :
                      Result.rows[k][i].tag # "Null" =>
                          Result.rows[k][i].v = Stored[offset + k][StoredShown[i]].v

\* get_table_data with limit 1 and offset 0 on the table of one row whose
\* name is t, a backquote, a space, two dashes, a space and x has returned the
\* three rows of table t.
C19_Witness ==
    /\ Succeeded("get_table_data") /\ Exists
    /\ drv.call.args.table = BackquotedName
    /\ Len(Stored) = 1 /\ Len(drv.b[Key("d", "t")].rows) = 3
    /\ drv.call.args.limit = 1 /\ drv.call.args.offset = 0
    /\ Len(Result.rows) = 3

(***************************************************************************)
(* C20                                                                     *)
(***************************************************************************)
\* The rows of the object the request names whose key the statement matches.
Matching(b) ==
    LET rows == b[Key(drv.call.args.database, drv.call.args.table)].rows IN
    { i \in 1..Len(rows) : rows[i][1].v = drv.call.args.id }

\* A step in which the DELETE of the request succeeds: the result the task
\* sends carries the number of rows that matched as affected_rows, no column
\* and no row, and those rows are gone from the table.
C20_CountsTheRows ==
    drv.call.op = "execute_statement" /\ IsSome(drv'.call.res)
        /\ Unwrap(drv'.call.res).ok =>
        LET q == Val(Unwrap(drv'.call.res)) IN
        /\ Exists
        /\ q.affected_rows = Some(Cardinality(Matching(drv.b)))
        /\ q.columns = <<>> /\ q.rows = <<>>
        /\ Len(drv'.b[Key(drv.call.args.database, drv.call.args.table)].rows)
              = Len(drv.b[Key(drv.call.args.database, drv.call.args.table)].rows)
                    - Cardinality(Matching(drv.b))

\* The result of a statement that succeeded is a count alone, and no row of
\* the table matches the statement any more.
C20_CountAlone ==
    Succeeded("execute_statement") =>
        /\ IsSome(Result.affected_rows)
        /\ Result.columns = <<>> /\ Result.rows = <<>>
        /\ Result.execution_time_ms = 0
        /\ Matching(drv.b) = {}

\* C20: a DELETE run through the statement branch of the query task yields a
\* result whose affected_rows is the number of rows the backend deleted and
\* whose columns and rows are empty.
C20_AffectedRowsIsBackendCount == []C20_CountAlone /\ [][C20_CountsTheRows]_vars

\* DELETE ... WHERE id = 1 on the table of d that held one such row has
\* returned affected_rows 1, and the table's other rows are still there.
C20_Witness ==
    /\ Succeeded("execute_statement")
    /\ drv.call.args = Args("d", "t", 1, 0, 0)
    /\ Result.affected_rows = Some(1)
    /\ Len(drv.b[Key("d", "t")].rows) = 2

(***************************************************************************)
(* The kinds of failure the MySQL driver returns.                          *)
(***************************************************************************)
\* What the transport (sqlx) can report, as e.to_string().
TransportMessages == {TransportError, NoSuchTable, SyntaxError}
ConnectionOps == {"connect", "test_connection"}
QueryOps ==
    {"list_databases", "list_tables", "list_views", "describe_table",
     "execute_query", "execute_statement", "get_table_data"}
\* The failure of the request's returned result.
Failure == Unwrap(drv.call.res).e

\* C21: every failure a driver call returns is typed and carries the
\* transport's message: ConnectionFailed from connect and test_connection,
\* QueryFailed from list_databases, list_tables, list_views, describe_table,
\* execute_query, execute_statement and get_table_data; close always succeeds;
\* the driver calls are these ten and no other kind of failure is returned.
C21_FailuresAreTyped ==
    /\ drv.call.op \in ConnectionOps \cup QueryOps \cup {"close", "run_query", "none"}
    /\ IsSome(drv.call.res) =>
         LET r == Unwrap(drv.call.res) IN
         /\ drv.call.op = "close" => r.ok
         /\ (drv.call.op \in ConnectionOps /\ ~r.ok) =>
                \E m \in TransportMessages : r.e = ConnectionFailed(m)
         /\ (drv.call.op \in QueryOps /\ ~r.ok) =>
                \E m \in TransportMessages : r.e = QueryFailed(m)

\* The probe has failed and its failure has been returned.
C21_Witness ==
    /\ Returned("test_connection")
    /\ ~Unwrap(drv.call.res).ok
    /\ Failure = ConnectionFailed(TransportError)

(***************************************************************************)
(* list_databases.                                                         *)
(***************************************************************************)
\* The first column of a SHOW DATABASES row parses as a name.
Parses(row) == "String" \in row[1].reads

\* C26: list_databases returns one DatabaseInfo per backend row whose first column parses as a name, in the
\* backend's order; a row that does not parse is left out and the call still
\* succeeds: only a failed fetch makes it fail.
C26_OnePerParsedRow ==
    Returned("list_databases") =>
        IF Unwrap(drv.call.res).ok
        THEN LET kept == SelectSeq(drv.call.fetched, Parses) IN
             /\ Len(Result) = Len(kept)
             /\ \A i \in 1..Len(kept) :
                    Result[i] = DatabaseInfo(kept[i][1].v)
        ELSE Failure = QueryFailed(TransportError)

\* Three rows, b then an unparsable one then a: the call has returned b, a.
C26_Witness ==
    /\ Succeeded("list_databases")
    /\ Len(drv.call.fetched) = 3
    /\ Parses(drv.call.fetched[1]) /\ drv.call.fetched[1][1].v = "b"
    /\ ~Parses(drv.call.fetched[2])
    /\ Parses(drv.call.fetched[3]) /\ drv.call.fetched[3][1].v = "a"
    /\ Len(Result) = 2
    /\ Result[1].name = "b" /\ Result[2].name = "a"

(***************************************************************************)
(* A backend call that does not return.                                    *)
(***************************************************************************)
\* The slot of caller state a_ is bound to a channel of cs that carries no
\* result: the task of the operation has not sent one.
Unanswered(a_, cs, slot) == IsSome(a_[slot]) /\ cs[Unwrap(a_[slot]).rx].val = None

\* The block of an unanswered slot finds nothing: it leaves the slot Pending
\* and delivers nothing.
PollsReportNothing ==
    \A slot \in Slots :
        Polling(slot) /\ Unanswered(app, chans, slot) =>
            /\ Polled.app[slot] = app[slot]
            /\ Polled.delivered = <<>>

\* An unanswered slot changes only in a step of the caller, and only to the
\* Receiver of a new start.
OnlySuperseded ==
    \A slot \in Slots :
        (Unanswered(app, chans, slot) /\ app'[slot] # app[slot]) =>
            /\ FrameStep
            /\ IsSome(app'[slot])
            /\ chans'[Unwrap(app'[slot]).rx] = NewChannel
            /\ Unwrap(app'[slot]).rx \in DOMAIN tasks' \ DOMAIN tasks

\* No step but the return of the operation's own backend call puts a result
\* into its channel.
OnlyReturnAnswers ==
    \A id \in DOMAIN chans :
        (chans[id].val = None /\ id \in DOMAIN chans' /\ chans'[id].val # None) =>
            /\ id \in DOMAIN tasks
            /\ IF tasks[id].kind \in LockKinds THEN tasks[id].pc = "calling"
               ELSE tasks[id].pc \in { Parked[n] : n \in 1..Len(Parked) }
            /\ id \notin DOMAIN tasks' \/ tasks'[id].pc = "sent"

\* C22: while the backend call of a spawned operation has not returned, the
\* slot bound to it stays Pending: every poll reports no result for it, no
\* step other than the call's return answers it, no timeout resets it, and it
\* changes only when the caller supersedes it with a new start.
C22_HungCallStaysPending ==
    /\ []PollsReportNothing
    /\ [][OnlySuperseded /\ OnlyReturnAnswers]_vars

\* The listing of databases started by the connect is inside its backend
\* call, its slot bound to it, and the caller, in a later frame (a query was
\* typed into the editor), is about to poll the slot and will leave it alone.
C22_Witness ==
    \E id \in DOMAIN tasks :
        /\ tasks[id].kind = "databases" /\ tasks[id].pc = "calling"
        /\ Polling("pending_databases")
        /\ Holds(app, "pending_databases", id)
        /\ chans[id].val = None
        /\ app.query_content = TypedQuery(1)
        /\ app.schema_loading
        /\ Polled.app.pending_databases = app.pending_databases
        /\ Polled.delivered = <<>>

(***************************************************************************)
(* close.                                                                  *)
(***************************************************************************)
\* How often a run called close on the connection it created.
Closes(calls) == Cardinality({ i \in 1..Len(calls) : calls[i] = "close" })

\* C23: close is called at most once on any connection the bridge creates:
\* a test-connection block closes the connection it opened once, as its last
\* call and only after a probe that succeeded; a connect block does not
\* close the connection it hands over; no task on the session connection
\* calls close. This holds wherever between its awaits the block stands.
C23_ClosedAtMostOnce ==
    \A id \in DOMAIN tasks :
        LET t == tasks[id] IN
        IF t.kind \in LockKinds THEN DriverCall(t) # "close"
        ELSE \A r \in { x \in BodyRuns(t.kind, t.arg) : Awaits(x) > Awaited(t) } :
                 /\ Closes(r.calls) <= 1
                 /\ Closes(r.calls) = 1 =>
                       t.kind = "test" /\ r.calls = <<"test_connection", "close">>
                 /\ Len(r.calls) > 0 => r.attempts = 1

\* A test-connection block has run to its end, closing its connection: the
\* success it sent waits in the channel of the test slot.
C23_Witness ==
    \E id \in DOMAIN chans :
        /\ Holds(app, "pending_test", id)
        /\ chans[id].val = Some(Ok(Unit))
        /\ id \notin DOMAIN tasks

(***************************************************************************)
(* The life of the connection lock in one operation.                       *)
(***************************************************************************)
\* How far a task on the session connection has come.
Rank(pc) ==
    CASE pc = "spawned" -> 0 [] pc = "waiting" -> 1 [] pc = "calling" -> 2 [] pc = "sent" -> 3
Waiting == { mutex.waiters[i] : i \in 1..Len(mutex.waiters) }
Operations == { id \in DOMAIN tasks : tasks[id].kind \in LockKinds }

\* The lock is held by exactly the task that is inside its backend call or
\* has just sent its result; the tasks queued for it are exactly those that
\* asked and were not served yet, each queued once; with no operation task
\* running the lock is free and nobody waits.
LockFollowsTheCall ==
    /\ \A id \in Operations :
          /\ (mutex.holder = Some(id)) <=> (tasks[id].pc \in {"calling", "sent"})
          /\ (id \in Waiting) <=> (tasks[id].pc = "waiting")
    /\ \A i, j \in 1..Len(mutex.waiters) : mutex.waiters[i] = mutex.waiters[j] => i = j
    /\ IsSome(mutex.holder) => Unwrap(mutex.holder) \in Operations
    /\ Waiting \subseteq Operations
    /\ Operations = {} => mutex = [holder |-> None, waiters |-> <<>>]
    \* a task that has sent its result, delivered or discarded, can drop the guard
    /\ \A id \in Operations : tasks[id].pc = "sent" => ENABLED Release(id)

\* A task only moves forward (ask, be served, call, send, end), so it is
\* served the lock once; it gives the lock up only after its call has
\* returned, and then it ends.
LockedOnce ==
    \A id \in Operations :
        /\ id \in DOMAIN tasks' =>
              /\ Rank(tasks'[id].pc) >= Rank(tasks[id].pc)
              /\ tasks'[id].kind = tasks[id].kind
        /\ (mutex.holder = Some(id) /\ mutex'.holder # Some(id)) =>
              tasks[id].pc = "sent" /\ id \notin DOMAIN tasks'
        /\ id \notin DOMAIN tasks' => tasks[id].pc = "sent" /\ mutex.holder = Some(id)

\* C24: each spawned operation on the session connection acquires the
\* connection lock exactly once, holds it for the whole backend call and
\* releases it when the call has returned, whether the call succeeded, failed
\* or had its result discarded; with no operation task running the lock is
\* free.
C24_LockPerOperation == []LockFollowsTheCall /\ [][LockedOnce]_vars

\* A superseded operation has returned from its call and its result was
\* discarded; it still holds the lock, which another operation waits for.
C24_Witness ==
    \E id \in Operations :
        /\ tasks[id].pc = "sent"
        /\ id \notin DOMAIN chans
        /\ mutex.holder = Some(id)
        /\ mutex.waiters # <<>>

(***************************************************************************)
(* The order in which operations resolve.                                  *)
(***************************************************************************)
\* C25: operations are not delivered in the order they were started: the
\* block of the views slot delivers a list-views result that has arrived
\* whatever the state of the list-tables slot, which it leaves as it is. (The
\* state C25_Witness shows the behaviour is reachable: the views of a
\* database are delivered in a tick whose tables block has left the tables
\* of the same load, started before them, outstanding.)
C25_LaterNotHeldBack ==
    Polling("pending_views") /\ Ready(Now, "pending_views") =>
        LET id == Unwrap(app.pending_views).rx IN
        /\ Polled.app.pending_views = None
        /\ Deliveries(Polled, id) # {}
        /\ Polled.app.pending_tables = app.pending_tables
        /\ Unanswered(app, chans, "pending_tables") =>
              Unwrap(app.pending_tables).rx \notin DeliveredIds(Polled)

\* One load started list-tables and then list-views for the same database;
\* the views task was served the lock first and has returned, the tables task
\* has not: the tick has passed the tables block, which left the tables
\* Pending, and is about to deliver the views.
C25_Witness ==
    /\ Polling("pending_views")
    /\ IsSome(app.pending_tables) /\ IsSome(app.pending_views)
    /\ LET tb == Unwrap(app.pending_tables)
           vw == Unwrap(app.pending_views)
       IN  /\ tb.db = vw.db
           /\ tb.rx \in DOMAIN tasks /\ tasks[tb.rx].pc = "waiting"
           /\ chans[vw.rx].val # None /\ Unwrap(chans[vw.rx].val).ok
           /\ vw.rx \in DeliveredIds(Polled)
           /\ tb.rx \notin DeliveredIds(Polled)
           /\ Polled.app.pending_tables = app.pending_tables
           /\ Polled.app.pending_views = None
           /\ vw.db \in DOMAIN Polled.app.views
           /\ vw.db \notin DOMAIN Polled.app.tables

(***************************************************************************)
(* The caches of the schema browser.                                       *)
(***************************************************************************)
Caches(a_) == <<a_.databases, a_.tables, a_.views>>
\* The poll block (its place in SlotOrder) that writes each cache.
Writer == <<3, 4, 5>>

\* Cache c changes only in the block of its own slot, and only when that
\* block receives a successful result: a block that finds its slot empty or
\* Pending, or receives a failure, or any other block (the starts made by
\* the poll included), leaves it as it is.
CachesInPoll ==
    \A c \in 1..3 :
        Caches(Polled.app)[c] # Caches(app)[c] =>
            /\ block = Writer[c]
            /\ Ready(Now, SlotOrder[block])
            /\ Value(Now, SlotOrder[block]).ok
            /\ Polled.delivered =
                   <<[slot |-> SlotOrder[block], id |-> Unwrap(app[SlotOrder[block]]).rx,
                      res |-> Value(Now, SlotOrder[block])]>>

\* A poll block leaves the caches as it made them; the widgets of a frame (no
\* handler, hence no start, writes them) and a step of a task leave them
\* alone.
CachesInStep ==
    IF FrameStep THEN Caches(app') = Caches(Polled.app) ELSE Caches(app') = Caches(app)

\* C27: the databases list and the tables and views caches change only when
\* a poll delivers a successful list-databases, list-tables or list-views
\* result; failed results, starts and polls of pending slots leave them
\* unchanged.
C27_CachesChangeOnSuccess == []CachesInPoll /\ [][CachesInStep]_vars

\* The tables of a database are cached and a later load of them has failed:
\* the poll delivers the failure and the cache keeps the earlier listing.
C27_Witness ==
    /\ Polling("pending_tables")
    /\ Ready(Now, "pending_tables")
    /\ ~Value(Now, "pending_tables").ok
    /\ Unwrap(app.pending_tables).db \in DOMAIN app.tables
    /\ Unwrap(app.pending_tables).rx \in DeliveredIds(Polled)
    /\ Caches(Polled.app) = Caches(app)

(***************************************************************************)
(* The delivery of a connect result.                                       *)
(***************************************************************************)
\* The tasks of a kind among ts.
TasksOf(ts, kind) == { id \in DOMAIN ts : ts[id].kind = kind }
\* The caller is about to poll the connect slot, whose result has arrived.
ConnectArrives == Polling("pending_connection") /\ Ready(Now, "pending_connection")
ConnectResult == Value(Now, "pending_connection")

\* What the block of the connect slot does with a successful result.
ConnectedByBlock ==
    (ConnectArrives /\ ConnectResult.ok) =>
        /\ IsSome(Polled.app.pending_databases)
        /\ LET id == Unwrap(Polled.app.pending_databases).rx IN
            /\ Polled.delivered =
                  <<[slot |-> "pending_connection", id |-> Unwrap(app.pending_connection).rx,
                     res |-> ConnectResult]>>
            /\ Polled.app.connection = Some(Val(ConnectResult))
            /\ Polled.app.connection_state = "Connected"
            /\ Polled.app.view_state = "Connected"
            /\ Polled.app.pending_connection = None
            /\ Polled.app.pending_databases = Some(Unkeyed(id))
            /\ Polled.app.schema_loading
            /\ Polled.chans[id] = NewChannel
            /\ id \notin DOMAIN tasks
            /\ DOMAIN Polled.tasks = DOMAIN tasks \cup {id}
            /\ Polled.tasks[id] = Task("databases", "")
            /\ \A t \in DOMAIN tasks : Polled.tasks[t] = tasks[t]

\* Within a poll, a listing of databases is started by the block of the
\* connect slot when it receives a success, and by no other step.
ListingStartedByConnect ==
    InPoll =>
        \A id \in DOMAIN tasks' \ DOMAIN tasks :
            tasks'[id].kind = "databases" => ConnectArrives /\ ConnectResult.ok

\* C28: when a poll delivers a successful connect result, the block that
\* receives it stores the connection, makes connection_state and the view
\* Connected, empties the connect slot and starts exactly one list-databases
\* operation, whose slot becomes Pending on a fresh channel; no other step of
\* the poll starts a listing of databases.
C28_ConnectedStartsOneListing ==
    []ConnectedByBlock /\ [][ListingStartedByConnect]_vars

\* A successful connect result has arrived: the poll stores the connection
\* and starts the listing of its databases, the only operation on it.
C28_Witness ==
    /\ ConnectArrives /\ ConnectResult.ok
    /\ app.connection = None /\ app.pending_databases = None
    /\ app.connection_state = "Connecting"
    /\ Polled.app.connection = Some(Val(ConnectResult))
    /\ Polled.app.connection_state = "Connected"
    /\ IsSome(Polled.app.pending_databases)
    /\ Cardinality(TasksOf(Polled.tasks, "databases")) = 1

\* What the block of the connect slot does with a failed result.
FailedByBlock ==
    (ConnectArrives /\ ~ConnectResult.ok) =>
        /\ app.connection = None
        /\ Polled.app.connection = None
        /\ Polled.app.connection_state = "Error"
        /\ Polled.app.view_state # "Connected"
        /\ Polled.app.form_test_result = Some(Err(ConnectResult.e))
        /\ Polled.app.pending_connection = None
        /\ Polled.tasks = tasks
        /\ Polled.app.pending_databases = app.pending_databases

\* The blocks after the connect block, and the tasks that run between them,
\* leave the session connection, connection_state and the view as they are.
RestOfPollKeepsSession ==
    (InPoll /\ ~Polling("pending_connection")) =>
        /\ app'.connection = app.connection
        /\ app'.connection_state = app.connection_state
        /\ app'.view_state = app.view_state

\* C29: when a poll delivers a failed connect result (a refusal of the
\* factory or a failed probe included), the session connection is absent
\* after the block, connection_state is Error, the view is not Connected, the
\* error text is stored for display, the connect slot is emptied and no
\* list-databases operation is started; the rest of the poll changes none of
\* this.
C29_FailedConnectLeavesNoSession ==
    []FailedByBlock /\ [][RestOfPollKeepsSession /\ ListingStartedByConnect]_vars

\* The factory has refused a backend it does not support and the refusal has
\* arrived: the poll stores its text and leaves the caller without session.
C29_Witness ==
    /\ ConnectArrives /\ ~ConnectResult.ok
    /\ ConnectResult.e = UnsupportedType("SQLite support coming soon")
    /\ app.connection_state = "Connecting"
    /\ Polled.app.connection_state = "Error"
    /\ Polled.app.form_test_result = Some(Err(ConnectResult.e))
    /\ Polled.app.pending_connection = None

(***************************************************************************)
(* The delivery of a listing of databases.                                 *)
(***************************************************************************)
\* The caller is about to poll the databases slot, whose result has arrived.
AtDatabases == Polling("pending_databases") /\ Ready(Now, "pending_databases")
\* The name the connection was configured with ("" if none).
Configured ==
    IF IsSome(app.connection_config) THEN Unwrap(app.connection_config).database ELSE ""
\* The databases of a listing that remain under the configured name.
Remaining(listing) ==
    LET Kept(d) == Configured = "" \/ d.name = Configured IN SelectSeq(listing, Kept)
\* The databases that remain of the listing that has arrived.
KeptNow ==
    LET result == Value(Now, "pending_databases") IN
    IF result.ok THEN Remaining(Val(result)) ELSE <<>>

\* What the block of the databases slot does with a listing.
LoadedByBlock ==
    AtDatabases =>
        IF Len(KeptNow) = 1
        THEN LET name == KeptNow[1].name
                 started == DOMAIN Polled.tasks \ DOMAIN tasks
             IN  /\ Polled.app.databases = KeptNow
                 /\ Polled.app.expanded_databases = app.expanded_databases \cup {name}
                 /\ Polled.app.selected_database = Some(name)
                 /\ IsSome(Polled.app.pending_tables) /\ IsSome(Polled.app.pending_views)
                 /\ Unwrap(Polled.app.pending_tables).db = name
                 /\ Unwrap(Polled.app.pending_views).db = name
                 /\ started = {Unwrap(Polled.app.pending_tables).rx,
                               Unwrap(Polled.app.pending_views).rx}
                 /\ Cardinality(started) = 2
                 /\ Polled.tasks[Unwrap(Polled.app.pending_tables).rx] = Task("tables", name)
                 /\ Polled.tasks[Unwrap(Polled.app.pending_views).rx] = Task("views", name)
                 /\ \A id \in started : Polled.chans[id] = NewChannel
        ELSE /\ Polled.tasks = tasks
             /\ Polled.app.pending_tables = app.pending_tables
             /\ Polled.app.pending_views = app.pending_views
             /\ Polled.app.expanded_databases = app.expanded_databases
             /\ Polled.app.selected_database = app.selected_database

\* Within a poll, a load of tables or views is started by the block of the
\* databases slot when one database remains, and by no other step.
LoadStartedByListing ==
    InPoll =>
        \A id \in DOMAIN tasks' \ DOMAIN tasks :
            tasks'[id].kind \in {"tables", "views"} => AtDatabases /\ Len(KeptNow) = 1

\* C30: when a poll delivers a list-databases result of which exactly one
\* database remains after filtering by the configured name (an empty name
\* keeps all), the block that receives it marks that database expanded and
\* selected and starts list-tables and then list-views for it, their slots
\* Pending; when none or several remain, or the listing failed, no load is
\* started and nothing is expanded or selected; no other step of the poll
\* starts a load.
C30_SingleDatabaseIsLoaded == []LoadedByBlock /\ [][LoadStartedByListing]_vars

\* The connection was configured with database a and the backend has listed
\* a and b: the poll keeps a, selects it and starts the load of its tables
\* and views.
C30_Witness ==
    /\ AtDatabases
    /\ Value(Now, "pending_databases") = Ok(<<DatabaseInfo("a"), DatabaseInfo("b")>>)
    /\ Configured = "a"
    /\ app.selected_database = None
    /\ Polled.app.databases = <<DatabaseInfo("a")>>
    /\ Polled.app.selected_database = Some("a")
    /\ "a" \in Polled.app.expanded_databases
    /\ IsSome(Polled.app.pending_tables) /\ IsSome(Polled.app.pending_views)
    /\ Cardinality(DOMAIN Polled.tasks \ DOMAIN tasks) = 2

(***************************************************************************)
(* A hung call and the other operations of the connection.                 *)
(***************************************************************************)
\* While a task is inside its backend call, every other operation task of
\* the connection is before its own call: it has sent no result, and the
\* poll delivers nothing for it and leaves the slot bound to it Pending.
OthersWaitForTheCall ==
    \A h \in InCall :
        /\ mutex.holder = Some(h)
        /\ \A id \in Operations \ {h} :
              /\ tasks[id].pc \in {"spawned", "waiting"}
              /\ id \in DOMAIN chans => chans[id].val = None
              /\ id \notin DeliveredIds(Polled)
              /\ \A slot \in SlotsOf(app, id) :
                    Polled.app[slot] = app[slot] \/ ~Holds(Polled.app, slot, id)

\* A step in which the call does not return leaves the lock with its task
\* and lets no other operation of the connection into its call.
CallKeepsTheLock ==
    \A h \in InCall :
        (h \in DOMAIN tasks' /\ tasks'[h].pc = "calling") =>
            /\ mutex'.holder = Some(h)
            /\ \A id \in (DOMAIN tasks') \ {h} :
                  tasks'[id].kind \in LockKinds => tasks'[id].pc \in {"spawned", "waiting"}
            /\ \A id \in (DOMAIN chans \cap DOMAIN chans') \ {h} :
                  (id \in Operations /\ chans[id].val = None) => chans'[id].val = None

\* C31: an operation that does not return from its backend call does not
\* release the connection lock, so no operation started on the connection
\* after it gets to its own call: each stays Pending as long as the call has
\* not returned, whatever its slot.
C31_HungCallBlocksTheConnection == []OthersWaitForTheCall /\ [][CallKeepsTheLock]_vars

\* The tables of a database are being listed and the listing of its views,
\* started in the same load, waits for the lock with its slot Pending.
C31_Witness ==
    \E h, id \in Operations :
        /\ tasks[h].pc = "calling" /\ tasks[h].kind = "tables"
        /\ tasks[id].pc = "waiting" /\ tasks[id].kind = "views"
        /\ Holds(app, "pending_tables", h)
        /\ Holds(app, "pending_views", id)
        /\ Polled.app.pending_views = app.pending_views

(***************************************************************************)
(* The flags of the caller and its slots.                                  *)
(***************************************************************************)
\* The flags of caller state a_ say what its slots hold.
FlagsFollowSlots(a_) ==
    /\ a_.query_executing <=> IsSome(a_.pending_query)
    /\ a_.form_testing <=> IsSome(a_.pending_test)

\* C32: in every reachable state, between the blocks of a poll included, and
\* after the block the caller is about to run, query_executing is true
\* exactly when the run-query slot is outstanding and form_testing is true
\* exactly when the test-connection slot is outstanding.
C32_FlagsFollowSlots ==
    /\ FlagsFollowSlots(app)
    /\ FlagsFollowSlots(Polled.app)

\* A query is outstanding with its flag raised and its result has arrived:
\* the poll empties the slot and lowers the flag.
C32_Witness ==
    /\ Polling("pending_query")
    /\ app.query_executing /\ Ready(Now, "pending_query")
    /\ ~app.form_testing /\ app.pending_test = None
    /\ ~Polled.app.query_executing /\ Polled.app.pending_query = None

(***************************************************************************)
(* The result of the last query.                                           *)
(***************************************************************************)
OneOfResultAndError(a_) == ~(IsSome(a_.query_result) /\ IsSome(a_.result_error))

\* C33: query_result and result_error are never both present, in a reachable
\* state (between the blocks of a poll included) or after the block the
\* caller is about to run; the delivery of a successful run-query result
\* sets the result and clears the error, the delivery of a failed one clears
\* the result and sets the error.
C33_ResultOrError ==
    /\ OneOfResultAndError(app)
    /\ OneOfResultAndError(Polled.app)
    /\ Polling("pending_query") /\ Ready(Now, "pending_query") =>
          LET result == Value(Now, "pending_query") IN
          IF result.ok
          THEN Polled.app.query_result = Some(Val(result)) /\ Polled.app.result_error = None
          ELSE Polled.app.query_result = None /\ Polled.app.result_error = Some(result.e)

\* The result of a first query is shown and a second query has failed: the
\* poll takes the result away and stores the error.
C33_Witness ==
    /\ Polling("pending_query")
    /\ IsSome(app.query_result) /\ app.result_error = None
    /\ Ready(Now, "pending_query") /\ ~Value(Now, "pending_query").ok
    /\ Polled.app.query_result = None
    /\ Polled.app.result_error = Some(Value(Now, "pending_query").e)

(***************************************************************************)
(* The session connection and what is started on it.                       *)
(***************************************************************************)
\* The view is Connected only with a session connection, and operation
\* tasks exist only with one; without one, a request for the tables and
\* views of a database or for a query changes nothing: no task, no channel,
\* no slot, no flag.
NothingWithoutConnection ==
    /\ app.view_state = "Connected" => IsSome(app.connection)
    /\ Operations # {} => IsSome(app.connection)
    /\ \A slot \in {"pending_databases", "pending_tables", "pending_views", "pending_query"} :
          IsSome(app[slot]) => IsSome(app.connection)
    /\ app.connection = None =>
          /\ \A d \in DbNames : load_tables_and_views(Now, d) = Now
          /\ execute_query(Now) = Now

\* A step that starts an operation is a step of the caller that ends with a
\* session connection present.
StartedOnConnection ==
    (\E id \in DOMAIN tasks' : tasks'[id].kind \in LockKinds /\ tasks'[id].pc = "spawned"
                               /\ (id \notin DOMAIN tasks \/ tasks[id] # tasks'[id])) =>
        IsSome(app'.connection)

\* C34: the view is Connected only in states where a session connection is
\* present; list-databases, list-tables, list-views and run-query operations
\* are started only when one is present; a request for a table and view
\* load or for a query without one changes no slot and no flag.
C34_OnlyOnAConnection == []NothingWithoutConnection /\ [][StartedOnConnection]_vars

\* A connect is outstanding and there is no session yet: a request for a
\* load or for a query would change nothing, the Pending connect included.
C34_Witness ==
    /\ app.connection = None
    /\ IsSome(app.pending_connection)
    /\ app.connection_state = "Connecting"
    /\ execute_query(Now).app = app
    /\ load_tables_and_views(Now, "a").tasks = tasks

(***************************************************************************)
(* The loading flag of the schema browser.                                 *)
(***************************************************************************)
\* C35 as stated: schema_loading is true in every reachable state in which a
\* list-databases or a list-tables slot is outstanding. (The program refutes
\* it: the delivery of either result lowers the flag, whatever the other
\* slot holds.)
C35_LoadingWhileOutstanding ==
    (IsSome(app.pending_databases) \/ IsSome(app.pending_tables)) => app.schema_loading

\* The tables of a database were delivered while a refresh of the databases
\* is outstanding: the flag is down and the list-databases slot is Pending.
C35_Witness ==
    /\ IsSome(app.pending_databases)
    /\ app.pending_tables = None
    /\ DOMAIN app.tables # {}
    /\ ~app.schema_loading

(***************************************************************************)
(* The tables and the views of a database.                                 *)
(***************************************************************************)
\* No operation of the session is outstanding: no slot is Pending and no
\* task is left.
Idle ==
    /\ \A slot \in Slots : app[slot] = None
    /\ DOMAIN tasks = {}

\* C36 as stated: on a backend whose calls neither fail nor hang, once no
\* operation is outstanding every database that has an entry in the tables
\* cache has one in the views cache. (The program refutes it: a load started
\* for another database takes the views slot over and the views of the first
\* are dropped on arrival.)
C36_TablesAndViewsTogether ==
    Idle => DOMAIN app.tables \subseteq DOMAIN app.views

\* Database a was expanded, then b: everything has resolved, the tables of
\* both are cached and the views of b only.
C36_Witness ==
    /\ Idle
    /\ DOMAIN app.tables = {"a", "b"}
    /\ DOMAIN app.views = {"b"}
    /\ app.expanded_databases = {"a", "b"}

(***************************************************************************)
(* The routing of the editor's text.                                       *)
(***************************************************************************)
Keywords == {"SELECT", "SHOW", "DESCRIBE", "EXPLAIN"}
\* Character c is letter k (an upper-case letter) in either case.
SameLetter(c, k) ==
    c = k \/ \E i \in 1..26 : SubSeq(UpperCase, i, i) = k /\ SubSeq(LowerCase, i, i) = c
\* After its leading whitespace the text begins with one of the keywords,
\* whatever the case of its letters.
BeginsWithKeyword(w) ==
    \E n \in 0..Len(w) :
        /\ \A i \in 1..n : SubSeq(w, i, i) \in Whitespace
        /\ \E k \in Keywords :
              /\ Len(w) - n >= Len(k)
              /\ \A i \in 1..Len(k) : SameLetter(SubSeq(w, n + i, n + i), SubSeq(k, i, i))

\* A text of a request with whitespace and letters beyond ASCII put around
\* it: a next line (U+0085), a no-break space (U+00A0) or a letter of Latin-1
\* before its whitespace, a letter of Latin-1 before or in place of the first
\* letter of its word, and the same after it.
Wide(sql) ==
    { Sql(w \o sql.ws, h, sql.tail \o t)
      : w \in {"", "", " ", " ", "é", "ß", "÷"},
        h \in {sql.head, "é" \o sql.head, "ß" \o From(sql.head, 2)},
        t \in {"", " é "} }

\* C37: run-query sends a text that, trimmed and whatever its case, begins
\* with SELECT, SHOW, DESCRIBE or EXPLAIN to execute_query (a successful
\* result has affected_rows absent) and every other text to
\* execute_statement (a successful result has affected_rows present, no
\* columns, no rows and execution_time_ms 0).
C37_RoutedByFirstWord ==
    /\ drv.call.op = "run_query" =>
          LET sql == drv.call.args.sql IN
          /\ DriverCall(Task("query", sql)) =
                IF BeginsWithKeyword(Text(sql)) THEN "execute_query" ELSE "execute_statement"
          /\ Succeeded("run_query") =>
                IF BeginsWithKeyword(Text(sql))
                THEN Result.affected_rows = None
                ELSE /\ IsSome(Result.affected_rows)
                     /\ Result.columns = <<>> /\ Result.rows = <<>>
                     /\ Result.execution_time_ms = 0
    /\ drv.call.op = "run_query" =>
          \A sql \in Wide(drv.call.args.sql) :
              DriverCall(Task("query", sql)) =
                  IF BeginsWithKeyword(Text(sql)) THEN "execute_query" ELSE "execute_statement"

\* "show" after a vertical tab has run as a query and returned a row.
C37_Witness ==
    /\ Succeeded("run_query")
    /\ drv.call.args.sql = Sql("", "show", " 1 ")
    /\ Result.affected_rows = None
    /\ Result.rows # <<>>

(***************************************************************************)
(* The test of the form's configuration.                                   *)
(***************************************************************************)
\* The caller fields of a test: its flag, its result and its slot.
TestFields == {"form_testing", "form_test_result", "pending_test"}
\* Caller states a_ and b_ differ in the fields of a test at most.
SameButTest(a_, b_) == \A f \in (DOMAIN a_) \ TestFields : a_[f] = b_[f]
TestTasks(ts) == { id \in DOMAIN ts : ts[id].kind = "test" }

\* The start of a test by the widgets of a frame changes the fields of a
\* test only, and spawns one task, on the configuration of the form.
TestStartsAside ==
    LET p == Now
        ev == Event("test", "", "", 0)
    IN  block = Widgets /\ ev \in Events(p) =>
          LET h == Handle(p, ev)
              new == { id \in DOMAIN h.tasks : id \notin DOMAIN p.tasks \/ h.tasks[id] # p.tasks[id] }
          IN  /\ SameButTest(p.app, h.app)
              /\ h.app.form_testing /\ IsSome(h.app.pending_test)
              /\ \A id \in new : h.tasks[id] = Task("test", p.app.form_config)
              /\ \A id \in DOMAIN p.tasks : id \in DOMAIN h.tasks

\* The block of the poll that applies the result of a test changes the
\* fields of a test only, and starts nothing.
TestResolvesAside ==
    Polling("pending_test") =>
        /\ SameButTest(app, Polled.app)
        /\ Polled.tasks = tasks

\* A test task asks for no lock: it neither holds the session connection
\* nor waits for it, and its block opens a connection of its own for every
\* driver call it makes.
TestTakesNoLock ==
    \A id \in TestTasks(tasks) :
        /\ mutex.holder # Some(id)
        /\ \A i \in 1..Len(mutex.waiters) : mutex.waiters[i] # id
        /\ \A r \in BodyRuns("test", tasks[id].arg) : r.calls # <<>> => r.attempts >= 1

\* Every step of a test task, from one await to the next, leaves the caller
\* and the lock alone.
TestRunsAside ==
    (\E id \in TestTasks(tasks) : id \notin DOMAIN tasks' \/ tasks'[id] # tasks[id])
        => UNCHANGED <<app, mutex>>

\* C38: starting and resolving a test of the form's configuration changes
\* form_testing and form_test_result (and the test's own slot) only: the
\* session connection, connection_state, view_state, the schema caches and
\* the query results stay as they are, and the test's task opens its own
\* connection and never takes the lock of the session connection.
C38_TestLeavesTheSession ==
    /\ [](TestStartsAside /\ TestResolvesAside /\ TestTakesNoLock)
    /\ [][TestRunsAside]_vars

\* A failed test arrives while the session is connected and a listing holds
\* the lock of its connection: the poll applies it and connection_state stays
\* Connected.
C38_Witness ==
    /\ Polling("pending_test")
    /\ IsSome(app.connection) /\ app.connection_state = "Connected"
    /\ IsSome(mutex.holder)
    /\ Ready(Now, "pending_test") /\ ~Value(Now, "pending_test").ok
    /\ Polled.app.form_test_result = Some(Value(Now, "pending_test"))
    /\ Polled.app.connection_state = "Connected"

(***************************************************************************)
(* The list of connections and the stored configuration.                   *)
(***************************************************************************)
BackendTypes == {"MySQL", "PostgreSQL", "SQLite", "MongoDB"}
\* The (db_type, name) pairs stored in the configuration ac.
StoredIn(ac) ==
    UNION { { <<t, k>> : k \in DOMAIN ac[SectionOf(t)] } : t \in BackendTypes }
\* The places of the pair pr in the list.
PlacesOf(list, pr) == { i \in 1..Len(list) : <<list[i].db_type, list[i].name>> = pr }

\* C39 as stated: the list of connections holds exactly one entry for each
\* (db_type, name) pair stored in app_config and no other entry. (The program
\* refutes it: connect pushes the form's configuration onto the list while
\* save_connection replaces the stored entry of the same name.)
C39_ListMatchesStore ==
    /\ \A pr \in StoredIn(app.app_config) : Cardinality(PlacesOf(app.connections, pr)) = 1
    /\ \A i \in 1..Len(app.connections) :
          <<app.connections[i].db_type, app.connections[i].name>> \in StoredIn(app.app_config)

\* A saved connection was opened and connected again: the list holds it
\* twice, the configuration once.
C39_Witness ==
    \E pr \in StoredIn(app.app_config) :
        /\ Cardinality(PlacesOf(app.connections, pr)) = 2
        /\ IsSome(app.connection_config)
        /\ <<Unwrap(app.connection_config).db_type, Unwrap(app.connection_config).name>> = pr

(***************************************************************************)
(* The active tab.                                                         *)
(***************************************************************************)
\* active_tab is None exactly when the bar has no tab, and else the id of one
\* of its tabs.
ActiveAmongTabs(bar) ==
    /\ bar.active_tab = None <=> bar.tabs = <<>>
    /\ IsSome(bar.active_tab) => Unwrap(bar.active_tab) \in TabIds(bar)

\* C40: after any sequence of add_tab and close_tab calls, active_tab is None
\* exactly when tabs is empty and otherwise is the id of a tab of the bar;
\* closing a tab that is not the active one, or an id no tab carries, leaves
\* active_tab unchanged.
C40_ActiveTabAmongTabs ==
    /\ ActiveAmongTabs(tab_bar)
    /\ \A id \in Uuids :
          /\ ActiveAmongTabs(close_tab(tab_bar, id))
          /\ tab_bar.active_tab # Some(id) =>
                close_tab(tab_bar, id).active_tab = tab_bar.active_tab
          /\ id \notin TabIds(tab_bar) => close_tab(tab_bar, id) = tab_bar

\* The last of three tabs is the active one and closing it makes the tab
\* before it active.
C40_Witness ==
    /\ Len(tab_bar.tabs) = MaxTabs
    /\ tab_bar.active_tab = Some(tab_bar.tabs[MaxTabs].id)
    /\ tab_bar.tabs[1].id > tab_bar.tabs[2].id
    /\ close_tab(tab_bar, tab_bar.tabs[MaxTabs].id).active_tab = Some(tab_bar.tabs[MaxTabs - 1].id)

====
